---- MODULE Spec2Model ----
(***************************************************************************)
(* A model of dyson-rs: the JSON value tree (ast), its compact and pretty  *)
(* renderings, the line-oriented text model (RawJson), the position        *)
(* tracking lexer, the recursive-descent parser, path addressing and the   *)
(* structural diff.                                                        *)
(*                                                                         *)
(* Characters are Unicode code points (integers) and every text is a       *)
(* sequence of code points.  Positions are (row, col), both 0-based as in  *)
(* the source.                                                             *)
(***************************************************************************)
EXTENDS Integers, Sequences, FiniteSets, TLC

VARIABLES pc, a, b, text, mark, res, prev

vars == <<pc, a, b, text, mark, res, prev>>

----------------------------------------------------------------------------
(* Character literals used by the source, as code points.                  *)
Ch ==
    [ lbrace |-> 123, rbrace |-> 125, lbracket |-> 91, rbracket |-> 93,
      colon |-> 58, comma |-> 44, quote |-> 34, backslash |-> 92,
      slash |-> 47, plus |-> 43, minus |-> 45, dot |-> 46,
      space |-> 32, lf |-> 10, cr |-> 13, tab |-> 9, nul |-> 0,
      zero |-> 48, one |-> 49, two |-> 50, nine |-> 57,
      a |-> 97, b |-> 98, e |-> 101, f |-> 102, l |-> 108, n |-> 110,
      r |-> 114, s |-> 115, t |-> 116, u |-> 117, bigA |-> 65, bigE |-> 69,
      bigF |-> 70, d |-> 100, g |-> 103, bigD |-> 68, four |-> 52,
      seven |-> 55, eight |-> 56, x |-> 120, question |-> 63,
      c |-> 99, gt |-> 62 ]

TrueLit == <<Ch.t, Ch.r, Ch.u, Ch.e>>
FalseLit == <<Ch.f, Ch.a, Ch.l, Ch.s, Ch.e>>
NullLit == <<Ch.n, Ch.u, Ch.l, Ch.l>>

IsDigit(c) == c >= Ch.zero /\ c <= Ch.nine

----------------------------------------------------------------------------
(* enum Value.  An Object is an insertion-ordered list of members with     *)
(* distinct keys.  An Integer is an i64 kept as sign and decimal magnitude *)
(* (no leading zero); a Float is a finite f64 kept as sign, integer digits *)
(* and fraction digits (no trailing zero), within the 15 significant       *)
(* digits for which f64 parsing and printing are exact.                    *)
Null == [t |-> "Null"]
Bool(x) == [t |-> "Bool", b |-> x]
String(x) == [t |-> "String", s |-> x]
Integer(isNeg, digits) == [t |-> "Integer", neg |-> isNeg, mag |-> digits]
Float(isNeg, digits, fdigits) ==
    [t |-> "Float", neg |-> isNeg, int |-> digits, frac |-> fdigits]
Array(xs) == [t |-> "Array", elems |-> xs]
Object(ms) == [t |-> "Object", members |-> ms]
Member(k, v) == [key |-> k, val |-> v]

(* A variant that leaves an existing key at its place.                     *)
InsertInPlace(ms, k, v) ==
    IF \E i \in 1..Len(ms) : ms[i].key = k
    THEN [i \in 1..Len(ms) |-> IF ms[i].key = k THEN Member(k, v) ELSE ms[i]]
    ELSE Append(ms, Member(k, v))

(* LinkedHashMap::insert: a new key is appended; an existing key gets the  *)
(* new value and moves to the end of the iteration order.                  *)
Insert(ms, k, v) ==
    SelectSeq(ms, LAMBDA m : m.key # k) \o <<Member(k, v)>>

(* Map lookup by key.                                                      *)
HasKey(ms, k) == \E i \in 1..Len(ms) : ms[i].key = k
Lookup(ms, k) == ms[CHOOSE i \in 1..Len(ms) : ms[i].key = k].val

IsZeroFloat(v) == v.t = "Float" /\ v.int = <<Ch.zero>> /\ v.frac = <<>>

(* derive(PartialEq) on Value: same variant and equal payloads; f64        *)
(* equality identifies 0.0 and -0.0; map equality compares the entries in  *)
(* iteration order.                                                        *)
RECURSIVE ValueEq(_, _)
ValueEq(x, y) ==
    IF x.t # y.t THEN FALSE
    ELSE IF x.t = "Array" THEN
        /\ Len(x.elems) = Len(y.elems)
        /\ \A i \in 1..Len(x.elems) : ValueEq(x.elems[i], y.elems[i])
    ELSE IF x.t = "Object" THEN
        /\ Len(x.members) = Len(y.members)
        /\ \A i \in 1..Len(x.members) :
              /\ x.members[i].key = y.members[i].key
              /\ ValueEq(x.members[i].val, y.members[i].val)
    ELSE IF x.t = "Float" THEN
        \/ IsZeroFloat(x) /\ IsZeroFloat(y)
        \/ x = y
    ELSE x = y

----------------------------------------------------------------------------
(* Text helpers.                                                           *)
(* A variant that joins the parts from the last to the first.              *)
RECURSIVE JoinReversed(_, _)
JoinReversed(parts, sep) ==
    IF parts = <<>> THEN <<>>
    ELSE IF Len(parts) = 1 THEN parts[1]
    ELSE JoinReversed(Tail(parts), sep) \o sep \o parts[1]

RECURSIVE Join(_, _)
Join(parts, sep) ==
    IF parts = <<>> THEN <<>>
    ELSE IF Len(parts) = 1 THEN parts[1]
    ELSE parts[1] \o sep \o Join(Tail(parts), sep)

RECURSIVE Repeat(_, _)
Repeat(s, n) == IF n <= 0 THEN <<>> ELSE s \o Repeat(s, n - 1)

(* str::replace for a one-character pattern.                               *)
RECURSIVE Replace(_, _, _)
Replace(s, from, to) ==
    IF s = <<>> THEN <<>>
    ELSE (IF Head(s) = from THEN to ELSE <<Head(s)>>)
            \o Replace(Tail(s), from, to)

(* fn quote: escape, in this order, backslash, quotation mark, solidus,    *)
(* line feed, carriage return and tab, then wrap in quotation marks.       *)
quote(s) ==
    LET s1 == Replace(s, Ch.backslash, <<Ch.backslash, Ch.backslash>>)
        s2 == Replace(s1, Ch.quote, <<Ch.backslash, Ch.quote>>)
        s3 == Replace(s2, Ch.slash, <<Ch.backslash, Ch.slash>>)
        s4 == Replace(s3, Ch.lf, <<Ch.backslash, Ch.n>>)
        s5 == Replace(s4, Ch.cr, <<Ch.backslash, Ch.r>>)
        s6 == Replace(s5, Ch.tab, <<Ch.backslash, Ch.t>>)
    IN  <<Ch.quote>> \o s6 \o <<Ch.quote>>

(* i64::to_string.                                                         *)
IntegerToString(v) == (IF v.neg THEN <<Ch.minus>> ELSE <<>>) \o v.mag

(* f64::to_string: plain decimal notation, never an exponent; a value with *)
(* a zero fractional part prints without a decimal point.                  *)
FloatToString(v) ==
    (IF v.neg THEN <<Ch.minus>> ELSE <<>>) \o v.int
        \o (IF v.frac = <<>> THEN <<>> ELSE <<Ch.dot>> \o v.frac)

(* impl Display for Value: the compact rendering.                          *)
RECURSIVE to_string(_)
to_string(v) ==
    CASE v.t = "Object" ->
            <<Ch.lbrace>>
            \o Join([i \in 1..Len(v.members) |->
                        quote(v.members[i].key) \o <<Ch.colon>>
                            \o to_string(v.members[i].val)], <<Ch.comma>>)
            \o <<Ch.rbrace>>
      [] v.t = "Array" ->
            <<Ch.lbracket>>
            \o Join([i \in 1..Len(v.elems) |-> to_string(v.elems[i])],
                    <<Ch.comma>>)
            \o <<Ch.rbracket>>
      [] v.t = "Bool" -> IF v.b THEN TrueLit ELSE FalseLit
      [] v.t = "Null" -> NullLit
      [] v.t = "String" -> quote(v.s)
      [] v.t = "Integer" -> IntegerToString(v)
      [] v.t = "Float" -> FloatToString(v)

(* Value::stringify: the pretty rendering, four spaces per nesting level.  *)
IndentUnit == <<Ch.space, Ch.space, Ch.space, Ch.space>>

RECURSIVE stringify_recursive(_, _)
stringify_recursive(v, indent) ==
    LET indent_external == Repeat(IndentUnit, indent)
        indent_internal == Repeat(IndentUnit, indent + 1)
    IN  CASE v.t = "Object" ->
                <<Ch.lbrace, Ch.lf>>
                \o Join([i \in 1..Len(v.members) |->
                            indent_internal \o quote(v.members[i].key)
                            \o <<Ch.colon, Ch.space>>
                            \o stringify_recursive(v.members[i].val,
                                                   indent + 1)],
                        <<Ch.comma, Ch.lf>>)
                \o <<Ch.lf>> \o indent_external \o <<Ch.rbrace>>
          [] v.t = "Array" ->
                <<Ch.lbracket, Ch.lf>>
                \o Join([i \in 1..Len(v.elems) |->
                            indent_internal
                            \o stringify_recursive(v.elems[i], indent + 1)],
                        <<Ch.comma, Ch.lf>>)
                \o <<Ch.lf>> \o indent_external \o <<Ch.rbracket>>
          [] OTHER -> to_string(v)

stringify(v) == stringify_recursive(v, 0)

----------------------------------------------------------------------------
(* RawJson: the rows of the document, each terminated by a line feed.      *)

(* str::replace("\r\n", "\n"): a carriage return directly before a line    *)
(* feed is dropped, every other character is kept.  The text is put        *)
(* together from its two halves.                                           *)
ReplacedAt(s, i) ==
    IF s[i] = Ch.cr /\ i < Len(s) /\ s[i + 1] = Ch.lf THEN <<>> ELSE <<s[i]>>

RECURSIVE ReplacedBetween(_, _, _)
ReplacedBetween(s, lo, hi) ==
    IF lo > hi THEN <<>>
    ELSE IF lo = hi THEN ReplacedAt(s, lo)
    ELSE ReplacedBetween(s, lo, (lo + hi) \div 2)
            \o ReplacedBetween(s, (lo + hi) \div 2 + 1, hi)

ReplaceCrLf(s) == ReplacedBetween(s, 1, Len(s))

(* str::split('\n'): the pieces between line feeds, at least one piece.    *)
FirstLf(s) ==
    CHOOSE i \in 1..Len(s) : s[i] = Ch.lf /\ \A j \in 1..(i - 1) : s[j] # Ch.lf

RECURSIVE SplitLf(_)
SplitLf(s) ==
    IF \A i \in 1..Len(s) : s[i] # Ch.lf THEN <<s>>
    ELSE <<SubSeq(s, 1, FirstLf(s) - 1)>>
            \o SplitLf(SubSeq(s, FirstLf(s) + 1, Len(s)))

(* FromIterator<String> for RawJson: every line gets a line feed back.     *)
WithLf(pieces) ==
    [i \in 1..Len(pieces) |-> Append(pieces[i], Ch.lf)] \o <<>>

(* impl From<&str> for RawJson, through FromIterator<String>.              *)
RawJson(s) == IF s = <<>> THEN <<>> ELSE WithLf(SplitLf(ReplaceCrLf(s)))

rows(json) == Len(json)

(* A variant that answers the row behind the last row.                     *)
eof_behind_rows(json) == IF rows(json) > 0 THEN <<rows(json), 0>> ELSE <<0, 0>>

eof(json) ==
    IF rows(json) > 0
    THEN <<rows(json) - 1, Len(json[rows(json)])>>
    ELSE <<0, 0>>

----------------------------------------------------------------------------
(* Lexer.  The cursor is Option<((row, col), char)>: `some` tells whether  *)
(* it is Some; row, col and c are meaningful only then.                    *)
NoCur == [some |-> FALSE, row |-> 0, col |-> 0, c |-> 0]
CurAt(json, r, c) ==
    [some |-> TRUE, row |-> r, col |-> c, c |-> json[r + 1][c + 1]]

(* Lexer::new.                                                             *)
LexerNew(json) == IF rows(json) = 0 THEN NoCur ELSE CurAt(json, 0, 0)

(* A variant that leaves a row before its last character.                  *)
LexerNextShortRows(json, cur) ==
    IF ~cur.some THEN NoCur
    ELSE IF cur.col + 2 < Len(json[cur.row + 1])
         THEN CurAt(json, cur.row, cur.col + 1)
    ELSE IF cur.row + 1 < rows(json) THEN CurAt(json, cur.row + 1, 0)
    ELSE NoCur

(* Iterator::next: the cursor after yielding the current item.             *)
LexerNext(json, cur) ==
    IF ~cur.some THEN NoCur
    ELSE IF cur.col + 1 < Len(json[cur.row + 1])
         THEN CurAt(json, cur.row, cur.col + 1)
    ELSE IF cur.row + 1 < rows(json) THEN CurAt(json, cur.row + 1, 0)
    ELSE NoCur

(* Lexer::pos: the cursor position, or eof.                                *)
LexerPos(json, cur) == IF cur.some THEN <<cur.row, cur.col>> ELSE eof(json)

(* Tokens: the variant name and, for the variants that carry one, the      *)
(* character.                                                              *)
Tok(name) == [k |-> name, c |-> 0]
TokC(name, ch) == [k |-> name, c |-> ch]

(* MainToken::tokenize.                                                    *)
MainTokenize(c) ==
    CASE c = Ch.lbrace -> Tok("LeftBrace")
      [] c = Ch.rbrace -> Tok("RightBrace")
      [] c = Ch.lbracket -> Tok("LeftBracket")
      [] c = Ch.rbracket -> Tok("RightBracket")
      [] c = Ch.colon -> Tok("Colon")
      [] c = Ch.comma -> Tok("Comma")
      [] c = Ch.quote -> Tok("Quotation")
      [] IsDigit(c) -> TokC("Digit", c)
      [] c = Ch.plus -> Tok("Plus")
      [] c = Ch.minus -> Tok("Minus")
      [] c = Ch.dot -> Tok("Dot")
      [] c \in {Ch.space, Ch.lf, Ch.cr, Ch.tab} -> Tok("Whitespace")
      [] OTHER -> TokC("Undecided", c)

(* ImmediateToken::tokenize.                                               *)
ImmediateTokenize(c) ==
    IF c \in {Ch.t, Ch.f, Ch.n} THEN TokC("Undecided", c)
    ELSE TokC("Unexpected", c)

(* ImmediateToken::confirm.                                                *)
ImmediateConfirm(s) ==
    CASE s = TrueLit -> "True"
      [] s = FalseLit -> "False"
      [] s = NullLit -> "Null"
      [] OTHER -> "Unexpected"

IsHex(c) ==
    \/ IsDigit(c)
    \/ c >= Ch.a /\ c <= Ch.f
    \/ c >= Ch.bigA /\ c <= Ch.bigF

(* StringToken::tokenize.                                                  *)
StringTokenize(c) ==
    CASE c = Ch.quote -> Tok("Quotation")
      [] c = Ch.backslash -> Tok("ReverseSolidus")
      [] c = Ch.slash -> Tok("Solidus")
      [] c = Ch.b -> Tok("Backspace")
      [] c = Ch.f -> Tok("Formfeed")
      [] c = Ch.n -> Tok("Linefeed")
      [] c = Ch.r -> Tok("CarriageReturn")
      [] c = Ch.t -> Tok("HorizontalTab")
      [] c = Ch.u -> Tok("Unicode")
      [] IsHex(c) -> TokC("Undecided", c)
      [] OTHER -> TokC("Unexpected", c)

(* NumberToken::tokenize.                                                  *)
NumberTokenize(c) ==
    CASE c = Ch.zero -> Tok("Zero")
      [] c > Ch.zero /\ c <= Ch.nine -> TokC("OneNine", c)
      [] c = Ch.plus -> Tok("Plus")
      [] c = Ch.minus -> Tok("Minus")
      [] c = Ch.dot -> Tok("Dot")
      [] c \in {Ch.e, Ch.bigE} -> Tok("Exponent")
      [] OTHER -> TokC("Unexpected", c)

(* T::tokenize for the token family T.                                     *)
Tokenize(family, c) ==
    CASE family = "Main" -> MainTokenize(c)
      [] family = "String" -> StringTokenize(c)
      [] family = "Number" -> NumberTokenize(c)

(* A variant that skips nothing.                                           *)
skip_nothing(json, cur) == cur

(* Lexer::skip_whitespace: the cursor moved to the first character that    *)
(* is not whitespace.                                                      *)
RECURSIVE skip_whitespace(_, _)
skip_whitespace(json, cur) ==
    IF cur.some /\ MainTokenize(cur.c) = Tok("Whitespace")
    THEN skip_whitespace(json, LexerNext(json, cur))
    ELSE cur

(* A variant that consumes the item it rejects.                            *)
lex_1_char_consuming(json, cur, family, token, skip) ==
    LET at == IF skip THEN skip_whitespace(json, cur) ELSE cur
    IN  IF at.some /\ Tokenize(family, at.c) = token
        THEN [ok |-> TRUE, at |-> at, cur |-> LexerNext(json, at)]
        ELSE [ok |-> FALSE, at |-> at, cur |-> LexerNext(json, at)]

(* Lexer::lex_1_char: on a match the item is consumed; on a mismatch or at *)
(* the end of input the cursor stays (after the whitespace skip).  `at` is *)
(* the item looked at, `cur` the cursor afterwards.                        *)
lex_1_char(json, cur, family, token, skip_ws) ==
    LET at == IF skip_ws THEN skip_whitespace(json, cur) ELSE cur
    IN  IF at.some /\ Tokenize(family, at.c) = token
        THEN [ok |-> TRUE, at |-> at, cur |-> LexerNext(json, at)]
        ELSE [ok |-> FALSE, at |-> at, cur |-> at]

(* Lexer::is_next: whether the next item is the token; the cursor only     *)
(* moves over skipped whitespace.                                          *)
is_next(json, cur, family, token, skip_ws) ==
    LET at == IF skip_ws THEN skip_whitespace(json, cur) ELSE cur
    IN  [yes |-> at.some /\ Tokenize(family, at.c) = token, cur |-> at]

(* Lexer::lex_n_chars, the taking loop: up to n items are consumed; a      *)
(* whitespace item is consumed too and stops the loop with `ws` set.       *)
RECURSIVE TakeChars(_, _, _, _)
TakeChars(json, cur, n, acc) ==
    IF n = 0 \/ ~cur.some
    THEN [ws |-> FALSE, str |-> acc, at |-> cur, cur |-> cur]
    ELSE IF MainTokenize(cur.c) = Tok("Whitespace")
    THEN [ws |-> TRUE, str |-> acc, at |-> cur, cur |-> LexerNext(json, cur)]
    ELSE TakeChars(json, LexerNext(json, cur), n - 1, Append(acc, cur.c))

(* Results of the parsing functions: Ok(value) with the cursor after it,   *)
(* or Err(kind) with the position (start, end) the error carries.          *)
Ok(v, c) ==
    [ok |-> TRUE, val |-> v, cur |-> c, err |-> "",
     pos |-> <<0, 0>>, end |-> <<0, 0>>]
Err(kind, p, e, c) ==
    [ok |-> FALSE, val |-> Null, cur |-> c, err |-> kind, pos |-> p, end |-> e]

(* The error of a failed lex_1_char.                                       *)
LexErr(json, r) ==
    IF r.at.some
    THEN Err("UnexpectedToken", LexerPos(json, r.at), LexerPos(json, r.at),
             r.cur)
    ELSE Err("UnexpectedEof", eof(json), eof(json), r.cur)

(* Lexer::lex_n_chars: the n characters read and the cursor after them.    *)
lex_n_chars(json, cur, n) ==
    IF n = 0 THEN Ok(String(<<>>), cur)
    ELSE IF ~cur.some
    THEN Err("EofWhileLex", eof(json), eof(json), cur)
    ELSE LET t == TakeChars(json, cur, n, <<>>)
         IN  IF t.ws
             THEN Err("UnexpectedWhiteSpace", LexerPos(json, cur),
                      LexerPos(json, t.at), t.cur)
             ELSE IF Len(t.str) = n THEN Ok(String(t.str), t.cur)
             ELSE Err("EofWhileLex", LexerPos(json, cur), eof(json), t.cur)

(* Lexer::lex_expected: skip whitespace, read as many characters as the    *)
(* expected literal has, and confirm them.                                 *)
lex_expected(json, cur, expected, literal) ==
    LET at == skip_whitespace(json, cur)
    IN  IF ~at.some THEN Err("UnexpectedEof", eof(json), eof(json), at)
        ELSE LET r == lex_n_chars(json, at, Len(literal))
             IN  IF ~r.ok THEN r
                 ELSE IF ImmediateConfirm(r.val.s) = expected THEN r
                 ELSE Err("UnexpectedToken", LexerPos(json, at),
                          LexerPos(json, at), r.cur)

----------------------------------------------------------------------------
(* Conversion of a numeral's text, as str::parse::<i64> and ::<f64> do it. *)
RECURSIVE StripLeadingZeros(_)
StripLeadingZeros(ds) ==
    IF Len(ds) > 1 /\ Head(ds) = Ch.zero THEN StripLeadingZeros(Tail(ds))
    ELSE ds

RECURSIVE StripTrailingZeros(_)
StripTrailingZeros(ds) ==
    IF ds # <<>> /\ ds[Len(ds)] = Ch.zero
    THEN StripTrailingZeros(SubSeq(ds, 1, Len(ds) - 1))
    ELSE ds

RECURSIVE TakeDigits(_)
TakeDigits(s) ==
    IF s # <<>> /\ IsDigit(Head(s)) THEN <<Head(s)>> \o TakeDigits(Tail(s))
    ELSE <<>>

RECURSIVE DropDigits(_)
DropDigits(s) ==
    IF s # <<>> /\ IsDigit(Head(s)) THEN DropDigits(Tail(s)) ELSE s

RECURSIVE DigitsToNat(_)
DigitsToNat(ds) ==
    IF ds = <<>> THEN 0
    ELSE DigitsToNat(SubSeq(ds, 1, Len(ds) - 1)) * 10
            + (ds[Len(ds)] - Ch.zero)

(* i64::MAX = 9223372036854775807 and -i64::MIN as decimal digits.         *)
I64MaxMag ==
    [i \in 1..19 |->
        <<9, 2, 2, 3, 3, 7, 2, 0, 3, 6, 8, 5, 4, 7, 7, 5, 8, 0, 7>>[i]
            + Ch.zero]
I64MinMag == [I64MaxMag EXCEPT ![19] = @ + 1]

(* x <= y for magnitudes without leading zeros.                            *)
MagLeq(x, y) ==
    IF Len(x) # Len(y) THEN Len(x) < Len(y)
    ELSE \A i \in 1..Len(x) :
            (\A j \in 1..(i - 1) : x[j] = y[j]) => x[i] <= y[i]

(* "[-]digits".parse::<i64>(): fails when the value is out of range.       *)
I64FromMagnitude(isNeg, mag) ==
    [ok |-> MagLeq(mag, IF isNeg THEN I64MinMag ELSE I64MaxMag),
     val |-> Integer(isNeg /\ mag # <<Ch.zero>>, mag)]

ParseI64(number) ==
    IF number # <<>> /\ Head(number) = Ch.minus
    THEN I64FromMagnitude(TRUE, StripLeadingZeros(Tail(number)))
    ELSE I64FromMagnitude(FALSE, StripLeadingZeros(number))

(* "[-]digits[.digits][(e|E)[+|-]digits]".parse::<f64>(): the digits of    *)
(* the integer and fraction parts, with the decimal point moved by the     *)
(* exponent, normalised.                                                   *)
Zeros(n) == [i \in 1..n |-> Ch.zero]

F64Shifted(isNeg, ds, p) ==
    IF p <= 0
    THEN Float(isNeg, <<Ch.zero>>, StripTrailingZeros(Zeros(0 - p) \o ds))
    ELSE IF p >= Len(ds)
    THEN Float(isNeg, StripLeadingZeros(ds \o Zeros(p - Len(ds))), <<>>)
    ELSE Float(isNeg, StripLeadingZeros(SubSeq(ds, 1, p)),
               StripTrailingZeros(SubSeq(ds, p + 1, Len(ds))))

(* The value of an exponent part "(e|E)[+|-]digits", 0 when it is absent.  *)
ExponentValue(s) ==
    IF s = <<>> THEN 0
    ELSE IF Len(s) > 1 /\ s[2] = Ch.minus
    THEN 0 - DigitsToNat(SubSeq(s, 3, Len(s)))
    ELSE IF Len(s) > 1 /\ s[2] = Ch.plus
    THEN DigitsToNat(SubSeq(s, 3, Len(s)))
    ELSE DigitsToNat(Tail(s))

F64Exponent(isNeg, ipart, fpart, rest) ==
    F64Shifted(isNeg, ipart \o fpart, Len(ipart) + ExponentValue(rest))

F64Fraction(isNeg, ipart, rest) ==
    IF rest # <<>> /\ Head(rest) = Ch.dot
    THEN F64Exponent(isNeg, ipart, TakeDigits(Tail(rest)),
                     DropDigits(Tail(rest)))
    ELSE F64Exponent(isNeg, ipart, <<>>, rest)

F64Unsigned(isNeg, body) ==
    F64Fraction(isNeg, TakeDigits(body), DropDigits(body))

ParseF64(number) ==
    IF number # <<>> /\ Head(number) = Ch.minus
    THEN F64Unsigned(TRUE, Tail(number))
    ELSE F64Unsigned(FALSE, number)

----------------------------------------------------------------------------
(* Parser.  Every function takes the document and the lexer cursor and     *)
(* returns Ok with the cursor after what it consumed, or the first error.  *)
(* Texts and single characters are returned as String values.  A function  *)
(* of the source is modelled by a chain of operators, one per step, each   *)
(* handing the result of its step to the next.                             *)

(* A text result with a prefix put before it; an error is passed on.       *)
Prefixed(prefix, r) ==
    IF r.ok THEN Ok(String(prefix \o r.val.s), r.cur) ELSE r

(* Parser::parse_digits.                                                   *)
RECURSIVE parse_digits(_, _, _, _)
parse_digits(json, cur, start, digits) ==
    IF cur.some /\ NumberTokenize(cur.c).k \in {"Zero", "OneNine"}
    THEN parse_digits(json, LexerNext(json, cur), start,
                      Append(digits, cur.c))
    ELSE IF digits = <<>> THEN Err("EmptyDigits", start, start, cur)
    ELSE Ok(String(digits), cur)

(* Parser::parse_fraction: the dot, then the digits.                       *)
FractionDigits(json, dot, start) ==
    IF ~dot.ok THEN LexErr(json, dot)
    ELSE Prefixed(<<dot.at.c>>, parse_digits(json, dot.cur, start, <<>>))

parse_fraction(json, cur, start) ==
    FractionDigits(json, lex_1_char(json, cur, "Number", Tok("Dot"), FALSE),
                   start)

(* Parser::parse_exponent: the exponent mark, an optional sign that is     *)
(* consumed, then the digits.                                              *)
ExponentDigits(json, ex, start) ==
    IF ~ex.ok THEN LexErr(json, ex)
    ELSE IF ~ex.cur.some THEN Err("UnexpectedEof", start, eof(json), ex.cur)
    ELSE IF NumberTokenize(ex.cur.c).k \in {"Plus", "Minus"}
    THEN Prefixed(<<ex.at.c, ex.cur.c>>,
                  parse_digits(json, LexerNext(json, ex.cur), start, <<>>))
    ELSE IF NumberTokenize(ex.cur.c).k \in {"Zero", "OneNine"}
    THEN Prefixed(<<ex.at.c>>, parse_digits(json, ex.cur, start, <<>>))
    ELSE Err("UnexpectedToken", LexerPos(json, ex.cur),
             LexerPos(json, ex.cur), ex.cur)

parse_exponent(json, cur, start) ==
    ExponentDigits(json,
                   lex_1_char(json, cur, "Number", Tok("Exponent"), FALSE),
                   start)

(* Lexer::peek().unwrap_or('\0'): the next character, NUL at the end.      *)
PeekChar(cur) == IF cur.some THEN cur.c ELSE Ch.nul

(* Parser::parse_number, the conversions: a numeral with a fraction or an  *)
(* exponent becomes a Float, any other an Integer that must fit i64.       *)
NumberFloat(number, r) ==
    IF r.ok THEN Ok(ParseF64(number \o r.val.s), r.cur) ELSE r

(* A variant that never refuses the integer conversion.                    *)
NumberIntegerUnchecked(json, cur, n, start) == Ok(n.val, cur)

NumberInteger(json, cur, n, start) ==
    IF n.ok THEN Ok(n.val, cur)
    ELSE Err("CannotConvertI64", start, LexerPos(json, cur), cur)

(* Parser::parse_number after the optional fraction: the optional          *)
(* exponent.                                                               *)
NumberExponent(json, fr, number, start) ==
    IF ~fr.ok THEN fr
    ELSE IF NumberTokenize(PeekChar(fr.cur)).k = "Exponent"
    THEN NumberFloat(number \o fr.val.s, parse_exponent(json, fr.cur, start))
    ELSE Ok(ParseF64(number \o fr.val.s), fr.cur)

(* Parser::parse_number after the integer digits.                          *)
NumberTail(json, cur, number, start) ==
    IF NumberTokenize(PeekChar(cur)).k = "Dot"
    THEN NumberExponent(json, parse_fraction(json, cur, start), number, start)
    ELSE IF NumberTokenize(PeekChar(cur)).k = "Exponent"
    THEN NumberExponent(json, Ok(String(<<>>), cur), number, start)
    ELSE NumberInteger(json, cur, ParseI64(number), start)

(* Parser::parse_number after the optional minus: a single zero, or a run  *)
(* of digits.                                                              *)
NumberDigits(json, sign, ds, start) ==
    IF ds.ok THEN NumberTail(json, ds.cur, sign \o ds.val.s, start) ELSE ds

(* A variant that reads a leading zero as the first digit of a run.        *)
NumberZeroAsDigit(json, sign, cur, zero, start) ==
    NumberDigits(json, sign, parse_digits(json, cur, start, <<>>), start)

NumberZero(json, sign, cur, zero, start) ==
    IF zero.ok THEN NumberTail(json, zero.cur, sign \o <<zero.at.c>>, start)
    ELSE NumberDigits(json, sign, parse_digits(json, cur, start, <<>>), start)

NumberSign(json, minus, start) ==
    NumberZero(json, IF minus.ok THEN <<minus.at.c>> ELSE <<>>, minus.cur,
               lex_1_char(json, minus.cur, "Number", Tok("Zero"), FALSE),
               start)

(* Parser::parse_number.                                                   *)
parse_number(json, cur) ==
    IF ~cur.some THEN Err("UnexpectedEof", eof(json), eof(json), cur)
    ELSE NumberSign(json,
                    lex_1_char(json, cur, "Number", Tok("Minus"), FALSE),
                    LexerPos(json, cur))

(* The value of a confirmed literal; an error is passed on.                *)
Immediate(v, r) == IF r.ok THEN Ok(v, r.cur) ELSE r

(* Parser::parse_bool.                                                     *)
parse_bool(json, cur) ==
    IF ~cur.some THEN Err("UnexpectedEof", eof(json), eof(json), cur)
    ELSE IF ImmediateTokenize(cur.c) = TokC("Undecided", Ch.t)
    THEN Immediate(Bool(TRUE), lex_expected(json, cur, "True", TrueLit))
    ELSE IF ImmediateTokenize(cur.c) = TokC("Undecided", Ch.f)
    THEN Immediate(Bool(FALSE), lex_expected(json, cur, "False", FalseLit))
    ELSE Err("UnexpectedToken", LexerPos(json, cur), LexerPos(json, cur), cur)

(* Parser::parse_null.                                                     *)
parse_null(json, cur) ==
    IF ~cur.some THEN Err("UnexpectedEof", eof(json), eof(json), cur)
    ELSE IF ImmediateTokenize(cur.c) = TokC("Undecided", Ch.n)
    THEN Immediate(Null, lex_expected(json, cur, "Null", NullLit))
    ELSE Err("UnexpectedToken", LexerPos(json, cur), LexerPos(json, cur), cur)

(* u32::from_str_radix(s, 16): an optional '+' and at least one hex digit. *)
HexDigit(c) ==
    IF IsDigit(c) THEN c - Ch.zero
    ELSE IF c >= Ch.a THEN c - Ch.a + 10
    ELSE c - Ch.bigA + 10

RECURSIVE HexToNat(_)
HexToNat(ds) ==
    IF ds = <<>> THEN 0
    ELSE HexToNat(SubSeq(ds, 1, Len(ds) - 1)) * 16 + HexDigit(ds[Len(ds)])

HexDigitsToU32(ds) ==
    IF ds # <<>> /\ \A i \in 1..Len(ds) : IsHex(ds[i])
    THEN [ok |-> TRUE, n |-> HexToNat(ds)]
    ELSE [ok |-> FALSE, n |-> 0]

FromStrRadix16(s) ==
    IF s # <<>> /\ Head(s) = Ch.plus THEN HexDigitsToU32(Tail(s))
    ELSE HexDigitsToU32(s)

(* char::from_u32: None for the surrogate range D800..DFFF.                *)
IsChar(n) == ~(n >= 55296 /\ n <= 57343)

(* Parser::parse_unicode: four characters, a character must follow them,   *)
(* they must be a hexadecimal number, and that number a character.         *)
UnicodeChar(json, n, cur, start) ==
    IF ~n.ok THEN Err("ParseIntError", start, start, cur)
    ELSE IF ~IsChar(n.n)
    THEN Err("CannotConvertUnicode", start, LexerPos(json, cur), cur)
    ELSE Ok(String(<<n.n>>), cur)

UnicodeHex(json, r, start) ==
    IF ~r.ok THEN r
    ELSE IF ~r.cur.some THEN Err("UnexpectedEof", start, eof(json), r.cur)
    ELSE UnicodeChar(json, FromStrRadix16(r.val.s), r.cur, start)

parse_unicode(json, cur, start) ==
    UnicodeHex(json, lex_n_chars(json, cur, 4), start)

(* Parser::parse_escape_sequence: the reverse solidus, then the escaped    *)
(* character at p, consumed before it is classified.                       *)
EscapedChar(json, tokenized, start, p, after) ==
    CASE tokenized = "Quotation" -> Ok(String(<<Ch.quote>>), after)
      [] tokenized = "ReverseSolidus" -> Ok(String(<<Ch.backslash>>), after)
      [] tokenized = "Solidus" -> Ok(String(<<Ch.slash>>), after)
      [] tokenized \in {"Backspace", "Formfeed"} ->
            Err("UnsupportedEscapeSequence", start, p, after)
      [] tokenized = "Linefeed" -> Ok(String(<<Ch.lf>>), after)
      [] tokenized = "CarriageReturn" -> Ok(String(<<Ch.cr>>), after)
      [] tokenized = "HorizontalTab" -> Ok(String(<<Ch.tab>>), after)
      [] tokenized = "Unicode" -> parse_unicode(json, after, start)
      [] OTHER -> Err("UnexpectedEscapeSequence", start, p, after)

(* A variant that takes every escaped character for itself.               *)
EscapedVerbatim(json, rs) ==
    IF ~rs.ok THEN LexErr(json, rs)
    ELSE Ok(String(<<rs.cur.c>>), LexerNext(json, rs.cur))

Escaped(json, rs) ==
    IF ~rs.ok THEN LexErr(json, rs)
    ELSE IF ~rs.cur.some
    THEN Err("UnexpectedEof", LexerPos(json, rs.at), eof(json), rs.cur)
    ELSE EscapedChar(json, StringTokenize(rs.cur.c).k, LexerPos(json, rs.at),
                     LexerPos(json, rs.cur), LexerNext(json, rs.cur))

parse_escape_sequence(json, cur) ==
    Escaped(json,
            lex_1_char(json, cur, "String", Tok("ReverseSolidus"), FALSE))

(* Parser::parse_string, the loop up to the closing quotation mark.        *)
RECURSIVE StringLoop(_, _, _, _)

StringEscape(json, e, start, string) ==
    IF e.ok THEN StringLoop(json, e.cur, start, string \o e.val.s) ELSE e

(* A variant that takes a line feed for a character of the string.        *)
StringLoopAcrossLines(json, cur, start, string) ==
    IF cur.some /\ StringTokenize(cur.c) = Tok("Quotation")
    THEN Ok(String(string), LexerNext(json, cur))
    ELSE IF ~cur.some
    THEN Err("UnexpectedEof", start, eof(json), cur)
    ELSE IF StringTokenize(cur.c) = Tok("ReverseSolidus")
    THEN StringEscape(json, parse_escape_sequence(json, cur), start, string)
    ELSE StringLoop(json, LexerNext(json, cur), start, Append(string, cur.c))

StringLoop(json, cur, start, string) ==
    IF cur.some /\ StringTokenize(cur.c) = Tok("Quotation")
    THEN Ok(String(string), LexerNext(json, cur))
    ELSE IF ~cur.some
    THEN Err("UnexpectedEof", start, eof(json), cur)
    ELSE IF cur.c = Ch.lf
    THEN Err("UnexpectedLinefeed", start, LexerPos(json, cur), cur)
    ELSE IF StringTokenize(cur.c) = Tok("ReverseSolidus")
    THEN StringEscape(json, parse_escape_sequence(json, cur), start, string)
    ELSE StringLoop(json, LexerNext(json, cur), start, Append(string, cur.c))

(* Parser::parse_string.                                                   *)
StringOpen(json, q) ==
    IF q.ok THEN StringLoop(json, q.cur, LexerPos(json, q.at), <<>>)
    ELSE LexErr(json, q)

parse_string(json, cur) ==
    StringOpen(json, lex_1_char(json, cur, "String", Tok("Quotation"), FALSE))

RECURSIVE parse_value(_, _)
RECURSIVE ObjectLoop(_, _, _)
RECURSIVE ArrayLoop(_, _, _)

(* The closing token after a container's loop.                             *)
Closed(json, r, v) == IF r.ok THEN Ok(v, r.cur) ELSE LexErr(json, r)

CloseContainer(json, cur, token, v) ==
    Closed(json, lex_1_char(json, cur, "Main", token, TRUE), v)

(* Parser::parse_object, one turn of the while loop, last step first.      *)
(* After a comma: a closing brace next is the trailing comma error, at the *)
(* position of the comma.                                                  *)
ObjectAfterComma(json, comma, close, object) ==
    IF close.yes
    THEN Err("TrailingComma", LexerPos(json, comma.at),
             LexerPos(json, comma.at), close.cur)
    ELSE ObjectLoop(json, close.cur, object)

(* After the member is inserted: a failed comma does not leave the loop.   *)
ObjectComma(json, comma, object) ==
    IF comma.ok
    THEN ObjectAfterComma(json, comma,
                          is_next(json, comma.cur, "Main", Tok("RightBrace"),
                                  TRUE),
                          object)
    ELSE ObjectLoop(json, comma.cur, object)

ObjectInsert(json, key, value, object) ==
    IF ~value.ok THEN value
    ELSE ObjectComma(json,
                     lex_1_char(json, value.cur, "Main", Tok("Comma"), TRUE),
                     Insert(object, key, value.val))

(* After the key: the colon, then the value.                               *)
ObjectMember(json, key, object) ==
    LET colon == lex_1_char(json, key.cur, "Main", Tok("Colon"), TRUE)
    IN  CASE ~key.ok -> key
          [] key.ok /\ ~colon.ok -> LexErr(json, colon)
          [] OTHER -> ObjectInsert(json, key.val.s,
                                   parse_value(json, colon.cur), object)

(* The loop ends at a closing brace; inside the loop a member starts with  *)
(* a quotation mark, anything else leaves the loop.                        *)
ObjectLoop(json, cur, object) ==
    LET rb == is_next(json, cur, "Main", Tok("RightBrace"), TRUE)
        qt == is_next(json, rb.cur, "Main", Tok("Quotation"), TRUE)
    IN  CASE rb.yes ->
                CloseContainer(json, rb.cur, Tok("RightBrace"), Object(object))
          [] ~rb.yes /\ ~qt.yes ->
                CloseContainer(json, qt.cur, Tok("RightBrace"), Object(object))
          [] OTHER -> ObjectMember(json, parse_string(json, qt.cur), object)

(* Parser::parse_object: consume the opening brace, then the member loop.  *)
parse_object(json, cur) ==
    LET lb == lex_1_char(json, cur, "Main", Tok("LeftBrace"), TRUE)
    IN  IF lb.ok THEN ObjectLoop(json, lb.cur, <<>>) ELSE LexErr(json, lb)

(* A variant that goes on with the loop after any comma.                   *)
ArrayAfterCommaLenient(json, comma, close, array) ==
    ArrayLoop(json, close.cur, array)

(* Parser::parse_array, one turn of the while loop, last step first.       *)
(* After a comma: a closing bracket next is the trailing comma error, at   *)
(* the position of the comma.                                              *)
ArrayAfterComma(json, comma, close, array) ==
    IF close.yes
    THEN Err("TrailingComma", LexerPos(json, comma.at),
             LexerPos(json, comma.at), close.cur)
    ELSE ArrayLoop(json, close.cur, array)

(* After the element is pushed: a failed comma leaves the loop.            *)
ArrayComma(json, comma, array) ==
    IF comma.ok
    THEN ArrayAfterComma(json, comma,
                         is_next(json, comma.cur, "Main", Tok("RightBracket"),
                                 TRUE),
                         array)
    ELSE CloseContainer(json, comma.cur, Tok("RightBracket"), Array(array))

(* A variant that drops an element that failed and closes the array.      *)
ArrayPushRecovering(json, value, array) ==
    IF ~value.ok
    THEN CloseContainer(json, value.cur, Tok("RightBracket"), Array(array))
    ELSE ArrayComma(json,
                    lex_1_char(json, value.cur, "Main", Tok("Comma"), TRUE),
                    Append(array, value.val))

ArrayPush(json, value, array) ==
    IF ~value.ok THEN value
    ELSE ArrayComma(json,
                    lex_1_char(json, value.cur, "Main", Tok("Comma"), TRUE),
                    Append(array, value.val))

(* The loop ends at a closing bracket.                                     *)
ArrayLoop(json, cur, array) ==
    LET rb == is_next(json, cur, "Main", Tok("RightBracket"), TRUE)
    IN  IF rb.yes
        THEN CloseContainer(json, rb.cur, Tok("RightBracket"), Array(array))
        ELSE ArrayPush(json, parse_value(json, rb.cur), array)

(* Parser::parse_array: consume the opening bracket, then the element      *)
(* loop.                                                                   *)
parse_array(json, cur) ==
    LET lb == lex_1_char(json, cur, "Main", Tok("LeftBracket"), TRUE)
    IN  IF lb.ok THEN ArrayLoop(json, lb.cur, <<>>) ELSE LexErr(json, lb)

(* Parser::parse_value: skip whitespace and dispatch on the first          *)
(* character.                                                              *)
ValueAt(json, at, tokenized) ==
    CASE ~at.some -> Err("UnexpectedEof", eof(json), eof(json), at)
      [] at.some /\ tokenized = Tok("LeftBrace") -> parse_object(json, at)
      [] at.some /\ tokenized = Tok("LeftBracket") -> parse_array(json, at)
      [] at.some /\ tokenized \in {TokC("Undecided", Ch.t),
                                   TokC("Undecided", Ch.f)} ->
            parse_bool(json, at)
      [] at.some /\ tokenized = TokC("Undecided", Ch.n) -> parse_null(json, at)
      [] at.some /\ tokenized = Tok("Quotation") -> parse_string(json, at)
      [] at.some /\ tokenized.k \in {"Minus", "Digit"} ->
            parse_number(json, at)
      [] OTHER -> Err("CannotStartParseValue", LexerPos(json, at),
                      LexerPos(json, at), at)

parse_value(json, cur) ==
    ValueAt(json, skip_whitespace(json, cur),
            MainTokenize(PeekChar(skip_whitespace(json, cur))))

(* The end of Value::parse: only whitespace may follow the value; anything *)
(* else is the surplus error, from the first surplus character to the end  *)
(* of input.                                                               *)
SurplusAt(json, r, rest) ==
    IF rest.some
    THEN Err("FoundSurplus", LexerPos(json, rest), eof(json), rest)
    ELSE r

Surplus(json, r) ==
    IF r.ok THEN SurplusAt(json, r, skip_whitespace(json, r.cur)) ELSE r

ParseDocument(json) == Surplus(json, parse_value(json, LexerNew(json)))

(* Value::parse: build the RawJson and parse the document.                 *)
ValueParse(s) == ParseDocument(RawJson(s))

----------------------------------------------------------------------------
(* Path addressing.  enum JsonIndexer; a JsonPath is a sequence of them.   *)
ObjInd(name) == [k |-> "ObjInd", key |-> name, i |-> 0]
ArrInd(n) == [k |-> "ArrInd", key |-> <<>>, i |-> n]

(* Option<&Value>.                                                         *)
None == [some |-> FALSE, val |-> Null]
Some(v) == [some |-> TRUE, val |-> v]

(* A variant that resolves every position of an array to its first        *)
(* element.                                                                *)
gotten_first(indexer, v) ==
    IF indexer.k = "ObjInd" /\ v.t = "Object"
    THEN IF HasKey(v.members, indexer.key)
         THEN Some(Lookup(v.members, indexer.key)) ELSE None
    ELSE IF indexer.k = "ArrInd" /\ v.t = "Array"
    THEN IF indexer.i < Len(v.elems) THEN Some(v.elems[1]) ELSE None
    ELSE None

(* JsonIndex::gotten for &JsonIndexer: a key in an Object, an in-range     *)
(* index in an Array, otherwise None.                                      *)
gotten(indexer, v) ==
    IF indexer.k = "ObjInd" /\ v.t = "Object"
    THEN IF HasKey(v.members, indexer.key)
         THEN Some(Lookup(v.members, indexer.key)) ELSE None
    ELSE IF indexer.k = "ArrInd" /\ v.t = "Array"
    THEN IF indexer.i < Len(v.elems)
         THEN Some(v.elems[indexer.i + 1]) ELSE None
    ELSE None

(* JsonIndex::gotten for &JsonPath: fold gotten over the steps.            *)
RECURSIVE path_gotten(_, _)
path_gotten(path, v) ==
    IF path = <<>> THEN Some(v)
    ELSE LET step == gotten(Head(path), v)
         IN  IF step.some THEN path_gotten(Tail(path), step.val) ELSE None

(* JsonIndex::gotten for &str, usize and Ranger.  A range is start..end;   *)
(* a slice is the sequence of its elements.                                *)
str_gotten(key, v) ==
    IF v.t = "Object" /\ HasKey(v.members, key)
    THEN Some(Lookup(v.members, key)) ELSE None

usize_gotten(i, v) ==
    IF v.t = "Array" /\ i < Len(v.elems) THEN Some(v.elems[i + 1]) ELSE None

ranger_gotten(start, end, v) ==
    IF v.t = "Array" /\ start <= end /\ end <= Len(v.elems)
    THEN Some(SubSeq(v.elems, start + 1, end)) ELSE None

(* The outcome of the direct form: the value, or a panic.                  *)
Indexed(v) == [panic |-> FALSE, val |-> v]
IndexPanic == [panic |-> TRUE, val |-> Null]

(* JsonIndex::indexed: the map, the vector or the slice is indexed         *)
(* directly, which panics on a missing key and out of bounds; any other    *)
(* variant panics in the match.                                            *)
str_indexed(key, v) ==
    IF v.t # "Object" THEN IndexPanic
    ELSE IF HasKey(v.members, key) THEN Indexed(Lookup(v.members, key))
    ELSE IndexPanic

usize_indexed(i, v) ==
    IF v.t # "Array" THEN IndexPanic
    ELSE IF i < Len(v.elems) THEN Indexed(v.elems[i + 1])
    ELSE IndexPanic

ranger_indexed(start, end, v) ==
    IF v.t # "Array" THEN IndexPanic
    ELSE IF start <= end /\ end <= Len(v.elems)
    THEN Indexed(SubSeq(v.elems, start + 1, end))
    ELSE IndexPanic

indexed(indexer, v) ==
    IF indexer.k = "ObjInd" /\ v.t = "Object"
    THEN str_indexed(indexer.key, v)
    ELSE IF indexer.k = "ArrInd" /\ v.t = "Array"
    THEN usize_indexed(indexer.i, v)
    ELSE IndexPanic

(* JsonIndex::indexed for &JsonPath: fold indexing over the steps.         *)
RECURSIVE path_indexed(_, _)
path_indexed(path, v) ==
    IF path = <<>> THEN Indexed(v)
    ELSE LET step == indexed(Head(path), v)
         IN  IF step.panic THEN IndexPanic
             ELSE path_indexed(Tail(path), step.val)

----------------------------------------------------------------------------
(* Structural diff.                                                        *)

(* Ord for String: lexicographic by code point.                            *)
RECURSIVE StrLess(_, _)
StrLess(x, y) ==
    IF y = <<>> THEN FALSE
    ELSE IF x = <<>> THEN TRUE
    ELSE IF Head(x) # Head(y) THEN Head(x) < Head(y)
    ELSE StrLess(Tail(x), Tail(y))

(* A variant that keeps the insertion order.                               *)
unsorted_by_key(ms) == ms

(* Itertools::sorted_by_key(|e| e.0): the members in ascending key order.  *)
RECURSIVE sorted_by_key(_)
sorted_by_key(ms) ==
    IF ms = <<>> THEN <<>>
    ELSE LET least == CHOOSE i \in 1..Len(ms) :
                        \A j \in 1..Len(ms) : ~StrLess(ms[j].key, ms[i].key)
         IN  <<ms[least]>>
             \o sorted_by_key([j \in 1..(Len(ms) - 1) |->
                                 IF j < least THEN ms[j] ELSE ms[j + 1]])

(* A variant that numbers the elements from 1.                             *)
EnumerateFromOne(i) == i

(* Iterator::enumerate: the index given to the element at position i of    *)
(* a sequence numbered from 1.                                             *)
EnumerateIndex(i) == i - 1

(* The result of diff_value: the list of diverging path pairs, or a panic. *)
Diffs(ds) == [panic |-> FALSE, diffs |-> ds]
Panic == [panic |-> TRUE, diffs |-> <<>>]

(* Variants of the last match arm: one reports every pair of values, one   *)
(* reports none.                                                           *)
LeafDiffAlways(av, bv, path_a, path_b) == <<<<path_a, path_b>>>>

LeafDiffNever(av, bv, path_a, path_b) == <<>>

(* The last match arm of diff_value_recursive: two values that are not     *)
(* both Objects or both Arrays diverge when they are unequal.              *)
LeafDiff(av, bv, path_a, path_b) ==
    IF ~ValueEq(av, bv) THEN <<<<path_a, path_b>>>> ELSE <<>>

RECURSIVE diff_value_recursive(_, _, _, _)
RECURSIVE ZipObjects(_, _, _, _, _)
RECURSIVE ZipArrays(_, _, _, _, _)

(* The (Object, Object) arm from position i on: zip_eq over the sorted     *)
(* members panics when exactly one side is exhausted; equal keys recurse,  *)
(* different keys are a divergence.                                        *)
ZipObjects(mai, mbi, i, path_a, path_b) ==
    IF i > Len(mai) /\ i > Len(mbi) THEN Diffs(<<>>)
    ELSE IF i > Len(mai) \/ i > Len(mbi) THEN Panic
    ELSE LET pa == Append(path_a, ObjInd(mai[i].key))
             pb == Append(path_b, ObjInd(mbi[i].key))
             here == IF mai[i].key = mbi[i].key
                     THEN diff_value_recursive(mai[i].val, mbi[i].val, pa, pb)
                     ELSE Diffs(<<<<pa, pb>>>>)
             rest == ZipObjects(mai, mbi, i + 1, path_a, path_b)
         IN  IF here.panic \/ rest.panic THEN Panic
             ELSE Diffs(here.diffs \o rest.diffs)

(* The (Array, Array) arm from position i on.                              *)
ZipArrays(va, vb, i, path_a, path_b) ==
    IF i > Len(va) /\ i > Len(vb) THEN Diffs(<<>>)
    ELSE IF i > Len(va) \/ i > Len(vb) THEN Panic
    ELSE LET pa == Append(path_a, ArrInd(EnumerateIndex(i)))
             pb == Append(path_b, ArrInd(EnumerateIndex(i)))
             here == diff_value_recursive(va[i], vb[i], pa, pb)
             rest == ZipArrays(va, vb, i + 1, path_a, path_b)
         IN  IF here.panic \/ rest.panic THEN Panic
             ELSE Diffs(here.diffs \o rest.diffs)

diff_value_recursive(av, bv, path_a, path_b) ==
    IF av.t = "Object" /\ bv.t = "Object"
    THEN ZipObjects(sorted_by_key(av.members), sorted_by_key(bv.members), 1,
                    path_a, path_b)
    ELSE IF av.t = "Array" /\ bv.t = "Array"
    THEN ZipArrays(av.elems, bv.elems, 1, path_a, path_b)
    ELSE Diffs(LeafDiff(av, bv, path_a, path_b))

(* fn diff_value.                                                          *)
diff_value(av, bv) == diff_value_recursive(av, bv, <<>>, <<>>)

----------------------------------------------------------------------------
(* Bounded inputs.                                                         *)

(* The largest number of elements or members of a generated container.     *)
MaxLen == 2

(* The largest number of inner containers of a generated nested container. *)
MaxInner == 2

SeqsUpTo(S, n) == UNION {[1..k -> S] : k \in 0..n}

(* Member lists with distinct keys, in every insertion order.              *)
MemberSeqs(K, S, n) ==
    {ms \in SeqsUpTo([key : K, val : S], n) :
        \A i, j \in 1..Len(ms) : i # j => ms[i].key # ms[j].key}

Containers(K, S, n) ==
    {Array(xs) : xs \in SeqsUpTo(S, n)}
        \cup {Object(ms) : ms \in MemberSeqs(K, S, n)}

One == Integer(FALSE, <<Ch.one>>)
Two == Integer(FALSE, <<Ch.two>>)
KeyA == <<Ch.a>>
KeyB == <<Ch.b>>

(* Inputs of the diff: scalars, containers of scalars, and containers of   *)
(* one or two inner values that are themselves containers.                 *)
DiffLeaves == {Null, One, Two}
DiffInner ==
    {One, Array(<<One>>), Array(<<Two>>), Object(<<Member(KeyA, One)>>),
     Object(<<Member(KeyB, Two)>>)}
DiffValues ==
    DiffLeaves \cup Containers({KeyA, KeyB}, DiffLeaves, MaxLen)
        \cup Containers({KeyA, KeyB}, DiffInner, MaxInner)

(* The same tree with the members of its objects inserted in any order.    *)
RECURSIVE Reorderings(_)
Reorderings(v) ==
    IF v.t = "Array"
    THEN {Array(xs) : xs \in
            {ys \in [1..Len(v.elems) ->
                        UNION {Reorderings(v.elems[i]) : i \in 1..Len(v.elems)}] :
                \A i \in 1..Len(v.elems) : ys[i] \in Reorderings(v.elems[i])}}
    ELSE IF v.t = "Object"
    THEN LET n == Len(v.members)
             perms == {f \in [1..n -> 1..n] :
                         \A i, j \in 1..n : i # j => f[i] # f[j]}
             vals == {ys \in [1..n ->
                        UNION {Reorderings(v.members[i].val) : i \in 1..n}] :
                        \A i \in 1..n : ys[i] \in Reorderings(v.members[i].val)}
         IN  {Object([i \in 1..n |-> Member(v.members[f[i]].key, ys[f[i]])]) :
                f \in perms, ys \in vals}
    ELSE {v}

----------------------------------------------------------------------------
(* The diff of two trees.                                                  *)
InitDiff ==
    /\ pc = "diff_input"
    /\ a \in DiffValues
    /\ b \in DiffValues
    /\ text = <<>>
    /\ mark = 0
    /\ res = Null
    /\ prev = Null

(* diff_value(a, b) is called.                                             *)
DiffValue ==
    /\ pc = "diff_input"
    /\ res' = diff_value(a, b)
    /\ pc' = "diffed"
    /\ UNCHANGED <<a, b, text, mark, prev>>

(* The two trees are built again with another insertion order of their     *)
(* objects' members, and diff_value is called on them.                     *)
Reorder ==
    /\ pc = "diffed"
    /\ \E a2 \in Reorderings(a), b2 \in Reorderings(b) :
        /\ a2 # a \/ b2 # b
        /\ a' = a2
        /\ b' = b2
        /\ prev' = res
        /\ res' = diff_value(a2, b2)
    /\ pc' = "reordered"
    /\ UNCHANGED <<text, mark>>

NextDiff == DiffValue \/ Reorder

SpecDiff == InitDiff /\ [][NextDiff]_vars

(* Two trees have the same shape: the same variant at every position, the  *)
(* same array lengths and the same key sets.                               *)
RECURSIVE SameShape(_, _)
SameShape(x, y) ==
    /\ x.t = y.t
    /\ x.t = "Array" =>
        /\ Len(x.elems) = Len(y.elems)
        /\ \A i \in 1..Len(x.elems) : SameShape(x.elems[i], y.elems[i])
    /\ x.t = "Object" =>
        /\ {x.members[i].key : i \in 1..Len(x.members)}
              = {y.members[i].key : i \in 1..Len(y.members)}
        /\ \A i \in 1..Len(x.members) :
              SameShape(x.members[i].val,
                        Lookup(y.members, x.members[i].key))

(* The paths of the leaf positions (the values that are neither Object nor *)
(* Array) of a tree.                                                       *)
RECURSIVE LeafPaths(_)
LeafPaths(v) ==
    IF v.t = "Array"
    THEN UNION {{<<ArrInd(i - 1)>> \o p : p \in LeafPaths(v.elems[i])} :
                    i \in 1..Len(v.elems)}
    ELSE IF v.t = "Object"
    THEN UNION {{<<ObjInd(v.members[i].key)>> \o p :
                    p \in LeafPaths(v.members[i].val)} :
                    i \in 1..Len(v.members)}
    ELSE {<<>>}

ToSet(seq) == {seq[i] : i \in 1..Len(seq)}

(* The last steps of two paths are different object keys.                  *)
DifferentLastKeys(pa, pb) ==
    /\ pa # <<>>
    /\ pb # <<>>
    /\ pa[Len(pa)].k = "ObjInd"
    /\ pb[Len(pb)].k = "ObjInd"
    /\ pa[Len(pa)].key # pb[Len(pb)].key

(* C3: diff_value(v, v) returns the empty list, without panicking, for     *)
(* every tree v.                                                           *)
DiffReflexive == (pc = "diffed" /\ a = b) => res = Diffs(<<>>)

DiffReflexiveWitness ==
    /\ pc = "diffed"
    /\ a = b
    /\ a.t = "Object"
    /\ Len(a.members) = 2
    /\ a.members[1].val.t \in {"Array", "Object"}
    /\ res = Diffs(<<>>)

(* C4: when diff_value(a, b) returns a non-empty list, a != b, and for     *)
(* every reported pair (pa, pb), pa resolves in a, pb resolves in b, and   *)
(* either their last steps are different object keys or a[pa] != b[pb].    *)
DiffSound ==
    (pc = "diffed" /\ ~res.panic) =>
        /\ res.diffs # <<>> => ~ValueEq(a, b)
        /\ \A n \in 1..Len(res.diffs) :
            LET pa == res.diffs[n][1]
                pb == res.diffs[n][2]
                ga == path_gotten(pa, a)
                gb == path_gotten(pb, b)
            IN  /\ ga.some
                /\ gb.some
                /\ DifferentLastKeys(pa, pb) \/ ~ValueEq(ga.val, gb.val)

DiffSoundWitness ==
    /\ pc = "diffed"
    /\ ~res.panic
    /\ \E n \in 1..Len(res.diffs) :
        /\ Len(res.diffs[n][1]) = 2
        /\ DifferentLastKeys(res.diffs[n][1], res.diffs[n][2])
    /\ \E n \in 1..Len(res.diffs) :
        /\ Len(res.diffs[n][1]) = 2
        /\ res.diffs[n][1][2].k = "ArrInd"
        /\ ~ValueEq(path_gotten(res.diffs[n][1], a).val,
                    path_gotten(res.diffs[n][2], b).val)

(* C5: for two trees of the same shape, diff_value returns exactly one     *)
(* pair (p, p) for each leaf position p where a[p] != b[p], and no other   *)
(* pair.                                                                   *)
DiffExact ==
    (pc = "diffed" /\ SameShape(a, b)) =>
        /\ ~res.panic
        /\ ToSet(res.diffs)
            = {<<p, p>> : p \in {q \in LeafPaths(a) :
                    ~ValueEq(path_gotten(q, a).val, path_gotten(q, b).val)}}
        /\ Cardinality(ToSet(res.diffs)) = Len(res.diffs)

DiffExactWitness ==
    /\ pc = "diffed"
    /\ SameShape(a, b)
    /\ a.t = "Object"
    /\ Len(res.diffs) = 1
    /\ Len(res.diffs[1][1]) = 2
    /\ \E p \in LeafPaths(a) : ValueEq(path_gotten(p, a).val,
                                       path_gotten(p, b).val)

(* C6: building a and b with another insertion order of their objects'     *)
(* members gives the same result of diff_value: the same pairs in the same *)
(* order.                                                                  *)
DiffOrderIndependent == pc = "reordered" => res = prev

DiffOrderIndependentWitness ==
    /\ pc = "reordered"
    /\ ~res.panic
    /\ Len(res.diffs) = 2
    /\ a.t = "Object"
    /\ Len(a.members) = 2
    /\ StrLess(a.members[2].key, a.members[1].key)
    /\ b.t = "Object"
    /\ Len(b.members) = 2
    /\ StrLess(b.members[1].key, b.members[2].key)

(* C7: when the two trees differ in structure (array lengths, key sets or  *)
(* sizes of objects, or variants at a position), diff_value panics instead *)
(* of returning a list.                                                    *)
DiffPanicsOnShapeMismatch ==
    (pc = "diffed" /\ ~SameShape(a, b)) => res.panic

----------------------------------------------------------------------------
(* Rendering a tree and parsing the text again.                            *)

(* The f64 values 0.2, -1.2, 1.0, -0.0 and 1e19.                           *)
FormatFloats ==
    {Float(FALSE, <<Ch.zero>>, <<Ch.two>>),
     Float(TRUE, <<Ch.one>>, <<Ch.two>>),
     Float(FALSE, <<Ch.one>>, <<>>),
     Float(TRUE, <<Ch.zero>>, <<>>),
     Float(FALSE, <<Ch.one>> \o [i \in 1..19 |-> Ch.zero], <<>>)}

(* Strings with each character that quote escapes, alone and combined.     *)
FormatStrings ==
    {<<>>, <<Ch.a>>, <<Ch.quote>>, <<Ch.backslash>>, <<Ch.slash>>, <<Ch.lf>>,
     <<Ch.cr>>, <<Ch.tab>>, <<Ch.backslash, Ch.n>>, <<Ch.cr, Ch.lf>>,
     <<Ch.a, Ch.quote, Ch.backslash>>}

FormatScalars ==
    {Null, Bool(TRUE), Bool(FALSE), Integer(FALSE, <<Ch.zero>>),
     Integer(TRUE, <<Ch.one>>), Integer(FALSE, I64MaxMag),
     Integer(TRUE, I64MinMag)}
        \cup {String(s) : s \in FormatStrings}
        \cup FormatFloats

FormatKeys == {KeyA, <<Ch.backslash, Ch.quote>>}

FormatInner ==
    {Null, Integer(TRUE, <<Ch.one>>), String(<<Ch.slash>>),
     Float(FALSE, <<Ch.zero>>, <<Ch.two>>)}

FormatValues ==
    FormatScalars
        \cup {Array(<<s>>) : s \in FormatScalars}
        \cup {Object(<<Member(k, s)>>) : k \in FormatKeys, s \in FormatScalars}
        \cup Containers(FormatKeys, FormatInner, MaxLen)
        \cup Containers({KeyA, KeyB}, DiffInner, MaxInner)

InitFormat ==
    /\ pc = "format_input"
    /\ a \in FormatValues
    /\ b = Null
    /\ text = <<>>
    /\ mark = 0
    /\ res = Null
    /\ prev = Null

(* Value::parse(a.to_string()).                                            *)
Compact ==
    /\ pc = "format_input"
    /\ text' = to_string(a)
    /\ res' = ValueParse(to_string(a))
    /\ pc' = "compact"
    /\ UNCHANGED <<a, b, mark, prev>>

(* Value::parse(a.stringify()).                                            *)
Pretty ==
    /\ pc = "format_input"
    /\ text' = stringify(a)
    /\ res' = ValueParse(stringify(a))
    /\ pc' = "pretty"
    /\ UNCHANGED <<a, b, mark, prev>>

(* The parsed tree is rendered again; prev keeps the first rendering.      *)
Recompact ==
    /\ pc = "compact"
    /\ res.ok
    /\ prev' = text
    /\ text' = to_string(res.val)
    /\ pc' = "recompact"
    /\ UNCHANGED <<a, b, mark, res>>

NextFormat == Compact \/ Pretty \/ Recompact

SpecFormat == InitFormat /\ [][NextFormat]_vars

(* C1: for every tree v, parsing the compact rendering of v and parsing    *)
(* the pretty rendering of v both succeed and give a tree equal to v.      *)
RoundTrip == pc \in {"compact", "pretty"} => (res.ok /\ ValueEq(res.val, a))

(* C2: for every tree v, the compact rendering of v parses, and the        *)
(* compact rendering of the parsed tree is the same text.                  *)
CompactIdempotent ==
    /\ pc = "compact" => res.ok
    /\ pc = "recompact" => text = prev

----------------------------------------------------------------------------
(* Parsing documents: renderings of trees, the same with a comma put       *)
(* before a closing bracket or with more text after the value, and         *)
(* numeral-like texts.                                                     *)

MaxNumLen == 5

Whitespace == {Ch.space, Ch.tab, Ch.lf, Ch.cr}

NumeralChars == {Ch.plus, Ch.minus, Ch.zero, Ch.one, Ch.dot}

Numerals == SeqsUpTo(NumeralChars, MaxNumLen) \ {<<>>}

ParseScalars ==
    {Null, Bool(TRUE), String(<<>>), Integer(FALSE, <<Ch.zero>>),
     Integer(TRUE, <<Ch.one>>), Float(FALSE, <<Ch.zero>>, <<Ch.two>>)}

ParseInner ==
    {One, String(KeyA), Array(<<>>), Array(<<One>>),
     Object(<<Member(KeyA, One)>>)}

ParseValues == ParseScalars \cup Containers({KeyA, KeyB}, ParseInner, MaxLen)

Renderings ==
    {to_string(v) : v \in ParseValues} \cup {stringify(v) : v \in ParseValues}

(* What may follow a trailing comma, and what may be put after a value.    *)
CommaGaps == {<<>>, <<Ch.space>>, <<Ch.lf>>, <<Ch.cr, Ch.lf, Ch.tab>>}

Paddings == {<<>>, <<Ch.space>>, <<Ch.lf>>, <<Ch.tab, Ch.cr, Ch.lf>>}

Tails ==
    {<<>>, <<Ch.one>>, <<Ch.dot>>, <<Ch.rbracket>>, <<Ch.lbrace, Ch.rbrace>>,
     <<Ch.a, Ch.space>>}

InitParse ==
    /\ \/ pc = "document" /\ text \in Renderings
       \/ pc = "numeral" /\ text \in Numerals
    /\ a = Null
    /\ b = Null
    /\ mark = 0
    /\ res = Null
    /\ prev = Null

(* A comma, and possibly whitespace after it, is put at position j of the  *)
(* text: behind the last member of a container that has members, with      *)
(* nothing but whitespace between j and the closing bracket.               *)
InsertComma ==
    /\ pc = "document"
    /\ \E i \in {k \in 1..Len(text) : text[k] \in {Ch.rbracket, Ch.rbrace}} :
       \E m \in {k \in 1..(i - 1) :
                    /\ text[k] \notin Whitespace \cup {Ch.lbracket, Ch.lbrace}
                    /\ \A n \in (k + 1)..(i - 1) : text[n] \in Whitespace} :
       \E j \in (m + 1)..i, gap \in CommaGaps :
          /\ text' = SubSeq(text, 1, j - 1) \o <<Ch.comma>> \o gap
                        \o SubSeq(text, j, Len(text))
          /\ mark' = j
    /\ pc' = "comma"
    /\ UNCHANGED <<a, b, res, prev>>

(* More text is put after the rendering: whitespace, then possibly         *)
(* something else.                                                         *)
AppendText ==
    /\ pc = "document"
    /\ \E padding \in Paddings, tail \in Tails :
          /\ padding \o tail # <<>>
          /\ text' = text \o padding \o tail
    /\ pc' = "appended"
    /\ UNCHANGED <<a, b, mark, res, prev>>

(* Value::parse(text); prev keeps what parse_value alone returns for the   *)
(* same text.                                                              *)
Parse ==
    /\ pc \in {"document", "numeral", "comma", "appended"}
    /\ res' = ValueParse(text)
    /\ prev' = parse_value(RawJson(text), LexerNew(RawJson(text)))
    /\ pc' = CASE pc = "document" -> "parsed_document"
               [] pc = "numeral" -> "parsed_numeral"
               [] pc = "comma" -> "parsed_comma"
               [] pc = "appended" -> "parsed_appended"
    /\ UNCHANGED <<a, b, text, mark>>

NextParse == InsertComma \/ AppendText \/ Parse

SpecParse == InitParse /\ [][NextParse]_vars

(* The position (row, col) of the i-th character of a text: the number of  *)
(* line feeds before it, and its distance from the last of them.           *)
PositionOf(s, i) ==
    LET lfs == {k \in 1..(i - 1) : s[k] = Ch.lf}
        last == IF lfs = {} THEN 0
                ELSE CHOOSE k \in lfs : \A j \in lfs : j <= k
    IN  <<Cardinality(lfs), i - 1 - last>>

(* C8: when a comma, possibly followed by whitespace or line breaks,       *)
(* directly precedes the closing bracket of an object or array that has    *)
(* members, at any depth, parsing fails with the trailing comma error and  *)
(* the error carries the position of that comma.                           *)
TrailingCommaRejected ==
    pc = "parsed_comma" =>
        /\ ~res.ok
        /\ res.err = "TrailingComma"
        /\ res.pos = PositionOf(text, mark)

TrailingCommaRejectedWitness ==
    /\ pc = "parsed_comma"
    /\ ~res.ok
    /\ res.err = "TrailingComma"
    /\ res.pos[1] >= 2
    /\ text[mark + 1] = Ch.lf
    /\ \E i \in (mark + 1)..Len(text) : text[i] = Ch.rbracket

(* The three malformed numerals: a leading plus; a leading zero directly   *)
(* followed by a digit; a second dot after the fraction digits.            *)
Unsigned(s) == IF s # <<>> /\ Head(s) = Ch.minus THEN Tail(s) ELSE s

LeadingPlus(s) ==
    /\ Len(s) >= 2
    /\ s[1] = Ch.plus
    /\ IsDigit(s[2])

LeadingZero(s) ==
    /\ Len(Unsigned(s)) >= 2
    /\ Unsigned(s)[1] = Ch.zero
    /\ IsDigit(Unsigned(s)[2])

SecondDot(s) ==
    \E i, j \in 1..Len(Unsigned(s)) :
        /\ 1 < i /\ i + 1 < j
        /\ Unsigned(s)[i] = Ch.dot
        /\ Unsigned(s)[j] = Ch.dot
        /\ \A k \in 1..(j - 1) : k # i => IsDigit(Unsigned(s)[k])

RECURSIVE HasSurplus(_, _)
HasSurplus(json, cur) ==
    /\ cur.some
    /\ \/ cur.c \notin Whitespace
       \/ HasSurplus(json, LexerNext(json, cur))

----------------------------------------------------------------------------
(* Parsing numerals: parse_number applied at the start of a text made of   *)
(* the characters a numeral can hold, and of numerals around the limits    *)
(* of i64.                                                                 *)

MaxNumeralLen == 4

NumberChars ==
    {Ch.minus, Ch.plus, Ch.zero, Ch.one, Ch.dot, Ch.e, Ch.bigE}

BeyondI64Max == I64MinMag \o <<>>

BeyondI64Min == <<Ch.minus>> \o [I64MinMag EXCEPT ![19] = @ + 1]

LongNumerals ==
    {I64MaxMag \o <<>>, BeyondI64Max, <<Ch.minus>> \o I64MinMag,
     BeyondI64Min, BeyondI64Max \o <<Ch.dot, Ch.zero>>,
     BeyondI64Min \o <<Ch.bigE, Ch.one>>}

NumberTexts == SeqsUpTo(NumberChars, MaxNumeralLen) \cup LongNumerals

InitNumber ==
    /\ pc = "number_input"
    /\ text \in NumberTexts
    /\ a = Null
    /\ b = Null
    /\ mark = 0
    /\ res = Null
    /\ prev = Null

(* Parser::parse_number with the lexer at the start of the text.           *)
ParseNumber ==
    /\ pc = "number_input"
    /\ res' = parse_number(RawJson(text), LexerNew(RawJson(text)))
    /\ pc' = "number_parsed"
    /\ UNCHANGED <<a, b, text, mark, prev>>

NextNumber == ParseNumber

SpecNumber == InitNumber /\ [][NextNumber]_vars

(* The numeral grammar, read off the text alone.  CharAt is the i-th       *)
(* character, NUL past the end; DigitRunEnd(s, i) is the index of the last *)
(* digit of the run that starts at i, i - 1 when the run is empty.         *)
CharAt(s, i) == IF i \in 1..Len(s) THEN s[i] ELSE Ch.nul

DecimalDigit(c) == c \in Ch.zero..Ch.nine

DigitRunEnd(s, i) ==
    CHOOSE j \in (i - 1)..Len(s) :
        /\ \A k \in i..j : DecimalDigit(s[k])
        /\ ~DecimalDigit(CharAt(s, j + 1))

SignEnd(s) == IF CharAt(s, 1) = Ch.minus THEN 1 ELSE 0

IntEnd(s) ==
    IF CharAt(s, SignEnd(s) + 1) = Ch.zero THEN SignEnd(s) + 1
    ELSE DigitRunEnd(s, SignEnd(s) + 1)

HasFraction(s) == CharAt(s, IntEnd(s) + 1) = Ch.dot

FracEnd(s) ==
    IF HasFraction(s) THEN DigitRunEnd(s, IntEnd(s) + 2) ELSE IntEnd(s)

HasExponent(s) == CharAt(s, FracEnd(s) + 1) \in {Ch.e, Ch.bigE}

ExpDigitsFrom(s) ==
    IF CharAt(s, FracEnd(s) + 2) \in {Ch.plus, Ch.minus}
    THEN FracEnd(s) + 3
    ELSE FracEnd(s) + 2

NumeralEnd(s) ==
    IF HasExponent(s) THEN DigitRunEnd(s, ExpDigitsFrom(s)) ELSE FracEnd(s)

WellFormedNumeral(s) ==
    /\ IntEnd(s) > SignEnd(s)
    /\ HasFraction(s) => FracEnd(s) > IntEnd(s) + 1
    /\ HasExponent(s) => NumeralEnd(s) >= ExpDigitsFrom(s)

FloatNumeral(s) == HasFraction(s) \/ HasExponent(s)

(* Whether the integer digits of a well-formed numeral denote a value of   *)
(* i64: at most 19 digits, and with 19 digits not beyond                   *)
(* 9223372036854775807, or 9223372036854775808 behind a minus.             *)
I64Limit(s) ==
    <<9, 2, 2, 3, 3, 7, 2, 0, 3, 6, 8, 5, 4, 7, 7, 5, 8, 0>>
        \o <<IF SignEnd(s) = 1 THEN 8 ELSE 7>>

FitsI64(s) ==
    LET d == SubSeq(s, SignEnd(s) + 1, IntEnd(s))
    IN  \/ Len(d) < 19
        \/ /\ Len(d) = 19
           /\ ~\E i \in 1..19 :
                 /\ d[i] - Ch.zero > I64Limit(s)[i]
                 /\ \A j \in 1..(i - 1) : d[j] - Ch.zero = I64Limit(s)[j]

(* What parse_number returned is of the variant the numeral calls for,    *)
(* and the lexer stands behind the numeral's last character.               *)
ClassifiedAsWritten ==
    res.ok =>
        /\ res.val.t = IF FloatNumeral(text) THEN "Float" ELSE "Integer"
        /\ res.cur.some
        /\ LexerPos(RawJson(text), res.cur) = <<0, NumeralEnd(text)>>

(* C11, as stated: parse_number accepts exactly the texts that start with  *)
(* a numeral of the grammar, and returns a Float when the numeral has a    *)
(* fraction or an exponent and an Integer otherwise.                       *)
NumberGrammarExact ==
    pc = "number_parsed" =>
        /\ res.ok <=> WellFormedNumeral(text)
        /\ ClassifiedAsWritten

(* C11, amended: parse_number accepts exactly the texts that start with a  *)
(* numeral of the grammar whose value, when the numeral has neither        *)
(* fraction nor exponent, fits i64; it returns a Float when the numeral    *)
(* has a fraction or an exponent and an Integer otherwise, and the lexer   *)
(* stands behind the numeral.  A numeral with mandatory digits missing,    *)
(* and an integer numeral beyond i64, is an error.                         *)
NumberClassified ==
    pc = "number_parsed" =>
        /\ res.ok <=> /\ WellFormedNumeral(text)
                      /\ FloatNumeral(text) \/ FitsI64(text)
        /\ ClassifiedAsWritten

(* An integer numeral of the grammar beyond i64 has been rejected.         *)
NumberClassifiedWitness ==
    /\ pc = "number_parsed"
    /\ WellFormedNumeral(text)
    /\ ~FloatNumeral(text)
    /\ ~res.ok
    /\ res.err = "CannotConvertI64"

----------------------------------------------------------------------------
(* Parsing string literals: after optional whitespace an opening quotation *)
(* mark and a few plain characters; then an escape sequence, a unicode     *)
(* escape or a line break may follow, and the literal may be closed.       *)

MaxPlainLen == 2

PlainChars == {Ch.a, Ch.space, Ch.slash}

Leads == {<<>>, <<Ch.space>>, <<Ch.lf, Ch.tab>>}

EscapedChars ==
    {Ch.quote, Ch.backslash, Ch.slash, Ch.b, Ch.f, Ch.n, Ch.r, Ch.t,
     Ch.a, Ch.e, Ch.zero, Ch.bigA, Ch.space, Ch.tab, Ch.lf, Ch.nul}

HexTexts ==
    SeqsUpTo({Ch.zero, Ch.d, Ch.eight, Ch.plus}, 4)
        \cup {<<Ch.zero, Ch.zero, Ch.four, Ch.one>>,
              <<Ch.zero, Ch.zero, Ch.e, Ch.nine>>,
              <<Ch.zero, Ch.zero, Ch.zero, Ch.a>>,
              <<Ch.zero, Ch.zero, Ch.zero, Ch.bigA>>,
              <<Ch.d, Ch.seven, Ch.f, Ch.f>>,
              <<Ch.bigD, Ch.eight, Ch.zero, Ch.zero>>,
              <<Ch.d, Ch.f, Ch.bigF, Ch.f>>,
              <<Ch.e, Ch.zero, Ch.zero, Ch.zero>>,
              <<Ch.f, Ch.bigF, Ch.f, Ch.bigF>>,
              <<Ch.zero, Ch.zero, Ch.g, Ch.zero>>,
              <<Ch.minus, Ch.zero, Ch.four, Ch.one>>,
              <<Ch.zero, Ch.zero, Ch.space, Ch.one>>,
              <<Ch.zero, Ch.quote>>,
              <<Ch.zero, Ch.zero, Ch.lf>>}

StringTails == {<<>>, <<Ch.a>>}

InitString ==
    /\ pc = "string_body"
    /\ \E lead \in Leads, body \in SeqsUpTo(PlainChars, MaxPlainLen) :
          text = lead \o <<Ch.quote>> \o body
    /\ a = Null
    /\ b = Null
    /\ mark = 0
    /\ res = Null
    /\ prev = Null

(* A reverse solidus and one more character; mark is the index of the      *)
(* reverse solidus.                                                        *)
AppendEscape ==
    /\ pc = "string_body"
    /\ \E c \in EscapedChars : text' = text \o <<Ch.backslash, c>>
    /\ mark' = Len(text) + 1
    /\ pc' = "string_escape"
    /\ UNCHANGED <<a, b, res, prev>>

(* A reverse solidus, a `u` and up to four more characters.                *)
AppendUnicode ==
    /\ pc = "string_body"
    /\ \E h \in HexTexts : text' = text \o <<Ch.backslash, Ch.u>> \o h
    /\ mark' = Len(text) + 1
    /\ pc' = "string_unicode"
    /\ UNCHANGED <<a, b, res, prev>>

(* A line break; mark is the index of its line feed.                       *)
AppendBreak ==
    /\ pc = "string_body"
    /\ \/ text' = text \o <<Ch.lf>> /\ mark' = Len(text) + 1
       \/ text' = text \o <<Ch.cr, Ch.lf>> /\ mark' = Len(text) + 2
    /\ pc' = "string_break"
    /\ UNCHANGED <<a, b, res, prev>>

(* The literal is closed, possibly after one more plain character.         *)
CloseString ==
    /\ pc \in {"string_body", "string_escape", "string_unicode",
               "string_break"}
    /\ \E tail \in StringTails : text' = text \o tail \o <<Ch.quote>>
    /\ pc' = CASE pc = "string_body" -> "string_body_closed"
               [] pc = "string_escape" -> "string_escape_closed"
               [] pc = "string_unicode" -> "string_unicode_closed"
               [] pc = "string_break" -> "string_break_closed"
    /\ UNCHANGED <<a, b, mark, res, prev>>

(* Parser::parse_string with the lexer at the opening quotation mark; prev *)
(* keeps how the text was made.                                            *)
ParseString ==
    /\ pc \in {"string_body", "string_escape", "string_unicode",
               "string_break", "string_body_closed", "string_escape_closed",
               "string_unicode_closed", "string_break_closed"}
    /\ res' = parse_string(RawJson(text),
                           skip_whitespace(RawJson(text),
                                           LexerNew(RawJson(text))))
    /\ prev' = pc
    /\ pc' = "string_parsed"
    /\ UNCHANGED <<a, b, text, mark>>

NextString ==
    AppendEscape \/ AppendUnicode \/ AppendBreak \/ CloseString
        \/ ParseString

SpecString == InitString /\ [][NextString]_vars

(* What the text is made of.  OpeningQuote is the index of the opening     *)
(* quotation mark; a literal is closed plainly behind index i when only    *)
(* plain characters and then the closing quotation mark follow i.          *)
OpeningQuote(s) ==
    CHOOSE i \in 1..Len(s) :
        s[i] = Ch.quote /\ \A j \in 1..(i - 1) : s[j] # Ch.quote

ClosedBehind(s, i) ==
    /\ Len(s) > i
    /\ s[Len(s)] = Ch.quote
    /\ \A k \in (i + 1)..(Len(s) - 1) : s[k] \in PlainChars

(* The characters of the literal before index i, escape-free by the way    *)
(* the text is made.                                                       *)
PlainBefore(s, i) == SubSeq(s, OpeningQuote(s) + 1, i - 1)

PlainBehind(s, i) == SubSeq(s, i + 1, Len(s) - 1)

(* The character an escape letter stands for.                              *)
EscapeOf(c) ==
    CASE c = Ch.n -> Ch.lf
      [] c = Ch.r -> Ch.cr
      [] c = Ch.t -> Ch.tab
      [] OTHER -> c

(* C12: a reverse solidus followed by a quotation mark, a reverse solidus  *)
(* or a solidus yields that character, followed by n, r or t it yields the *)
(* line feed, carriage return or tab; followed by b or f the parse fails   *)
(* with the unsupported escape error, and followed by any other character  *)
(* but u it fails with the unexpected escape error.                        *)
EscapesAsWritten ==
    (pc = "string_parsed" /\ prev \in {"string_escape", "string_escape_closed"})
    => LET c == text[mark + 1]
       IN  IF c \in {Ch.quote, Ch.backslash, Ch.slash, Ch.n, Ch.r, Ch.t}
           THEN /\ prev = "string_escape_closed" =>
                    /\ res.ok
                    /\ res.val = String(PlainBefore(text, mark)
                                           \o <<EscapeOf(c)>>
                                           \o PlainBehind(text, mark + 1))
                /\ prev = "string_escape" =>
                    ~res.ok /\ res.err = "UnexpectedLinefeed"
           ELSE IF c \in {Ch.b, Ch.f}
           THEN ~res.ok /\ res.err = "UnsupportedEscapeSequence"
           ELSE ~res.ok /\ res.err = "UnexpectedEscapeSequence"

(* A literal with an escaped solidus between plain characters has been     *)
(* parsed.                                                                 *)
EscapesAsWrittenWitness ==
    /\ pc = "string_parsed"
    /\ prev = "string_escape_closed"
    /\ text[mark + 1] = Ch.slash
    /\ PlainBefore(text, mark) # <<>>
    /\ PlainBehind(text, mark + 1) # <<>>
    /\ res.ok
    /\ Len(res.val.s) = Len(PlainBefore(text, mark)) + 2

(* A line feed in the text that the string loop reaches outside an escape  *)
(* sequence: the literal is all plain up to a line break, or up to the end *)
(* of the input, where the row's line feed stands.                         *)
BreakInBody == prev \in {"string_body", "string_break", "string_break_closed"}

(* A line feed directly behind a reverse solidus.                          *)
BreakInEscape ==
    /\ prev \in {"string_escape", "string_escape_closed"}
    /\ text[mark + 1] = Ch.lf

HasLf(s) == \E i \in 1..Len(s) : s[i] = Ch.lf

EscapedLfLetter(s) ==
    \E j \in 1..(Len(s) - 1) : s[j] = Ch.backslash /\ s[j + 1] = Ch.n

EscapedLfCodePoint(s) ==
    \E j \in 1..(Len(s) - 5) :
        /\ s[j] = Ch.backslash
        /\ s[j + 1] = Ch.u
        /\ SubSeq(s, j + 2, j + 4)
              \in {<<Ch.zero, Ch.zero, Ch.zero>>, <<Ch.plus, Ch.zero, Ch.zero>>}
        /\ s[j + 5] \in {Ch.a, Ch.bigA}

(* C19, as stated: parse_string fails whenever a line feed or the end of   *)
(* the input is reached before the closing quotation mark, with an error   *)
(* whose span starts at the opening quotation mark; a line feed is in a    *)
(* parsed string only through the escape \n.                               *)
UnterminatedAtOpeningQuote ==
    pc = "string_parsed" =>
        /\ (BreakInBody \/ BreakInEscape) =>
              /\ ~res.ok
              /\ res.pos = PositionOf(text, OpeningQuote(text))
        /\ (res.ok /\ HasLf(res.val.s)) => EscapedLfLetter(text)

(* C19, amended: when the string loop reaches a line feed, a line break or *)
(* the end of the input, before the closing quotation mark, parse_string   *)
(* fails with the line feed error and the span starts at the opening       *)
(* quotation mark; a line feed directly behind a reverse solidus fails     *)
(* with the unexpected escape error and the span starts at the reverse     *)
(* solidus.  No literal with a raw line feed in it is parsed, and a line   *)
(* feed is in a parsed string only through the escape \n or a \u escape    *)
(* of the value 10 (000a, +00a).                                           *)
UnterminatedRejected ==
    pc = "string_parsed" =>
        /\ BreakInBody =>
              /\ ~res.ok
              /\ res.err = "UnexpectedLinefeed"
              /\ res.pos = PositionOf(text, OpeningQuote(text))
        /\ BreakInEscape =>
              /\ ~res.ok
              /\ res.err = "UnexpectedEscapeSequence"
              /\ res.pos = PositionOf(text, mark)
        /\ res.ok =>
              ~HasLf(SubSeq(text, OpeningQuote(text), Len(text)))
        /\ (res.ok /\ HasLf(res.val.s)) =>
              EscapedLfLetter(text) \/ EscapedLfCodePoint(text)

(* A literal with a line break between plain characters, opened behind     *)
(* the start of the text, has been rejected.                               *)
UnterminatedRejectedWitness ==
    /\ pc = "string_parsed"
    /\ prev = "string_break_closed"
    /\ OpeningQuote(text) > 1
    /\ mark > OpeningQuote(text) + 1
    /\ text[Len(text) - 1] = Ch.a
    /\ ~res.ok
    /\ res.pos # <<0, 0>>

(* The four characters behind \u, NUL where the text has ended, and the    *)
(* number they denote as hexadecimal digits.                               *)
FourBehind(s, i) == [k \in 1..4 |-> CharAt(s, i + 1 + k)]

HexChar(c) ==
    c \in (Ch.zero..Ch.nine) \cup (Ch.a..Ch.f) \cup (Ch.bigA..Ch.bigF)

HexCharValue(c) ==
    IF c \in Ch.zero..Ch.nine THEN c - Ch.zero
    ELSE IF c \in Ch.a..Ch.f THEN c - Ch.a + 10
    ELSE c - Ch.bigA + 10

HexValue(h) ==
    ((HexCharValue(h[1]) * 16 + HexCharValue(h[2])) * 16
        + HexCharValue(h[3])) * 16 + HexCharValue(h[4])

ScalarValue(n) == n \notin 55296..57343

(* C20: behind \u exactly four characters are consumed; when all four are  *)
(* hexadecimal digits of a scalar value the result is the character of     *)
(* that code point and parsing goes on behind the fourth digit; when one   *)
(* of the four is not a hexadecimal digit, the input ends first or the     *)
(* value is a surrogate, the parse fails.                                  *)
UnicodeEscapeStrict ==
    (pc = "string_parsed" /\ prev \in {"string_unicode", "string_unicode_closed"})
    => LET h == FourBehind(text, mark)
       IN  IF (\A k \in 1..4 : HexChar(h[k])) /\ ScalarValue(HexValue(h))
           THEN ClosedBehind(text, mark + 5) =>
                    /\ res.ok
                    /\ res.val = String(PlainBefore(text, mark)
                                           \o <<HexValue(h)>>
                                           \o PlainBehind(text, mark + 5))
           ELSE ~res.ok

----------------------------------------------------------------------------
(* Addressing a tree: by key, by position, by range, by JsonIndexer and by *)
(* JsonPath, each in the try form (get) and in the direct form (index).    *)

MaxPathLen == 2

IndexKeys == {KeyA, KeyB}

IndexPositions == 0..(MaxLen + 1)

Indexers ==
    {ObjInd(k) : k \in IndexKeys} \cup {ArrInd(i) : i \in IndexPositions}

InitIndex ==
    /\ pc = "index_input"
    /\ a \in DiffValues
    /\ b = Null
    /\ text = <<>>
    /\ mark = 0
    /\ res = Null
    /\ prev = Null

(* v.get(i) and v[i]; prev keeps the index.                                *)
Addressed(index, get, direct) ==
    /\ pc = "index_input"
    /\ prev' = index
    /\ res' = [get |-> get, direct |-> direct]
    /\ pc' = "indexed"
    /\ UNCHANGED <<a, b, text, mark>>

IndexByKey ==
    \E key \in IndexKeys :
        Addressed([kind |-> "key", key |-> key],
                  str_gotten(key, a), str_indexed(key, a))

IndexByPosition ==
    \E i \in IndexPositions :
        Addressed([kind |-> "position", i |-> i],
                  usize_gotten(i, a), usize_indexed(i, a))

IndexByRange ==
    \E start \in IndexPositions, end \in IndexPositions :
        Addressed([kind |-> "range", start |-> start, end |-> end],
                  ranger_gotten(start, end, a), ranger_indexed(start, end, a))

IndexByIndexer ==
    \E indexer \in Indexers :
        Addressed([kind |-> "indexer", indexer |-> indexer],
                  gotten(indexer, a), indexed(indexer, a))

IndexByPath ==
    \E path \in SeqsUpTo(Indexers, MaxPathLen) :
        Addressed([kind |-> "path", path |-> path],
                  path_gotten(path, a), path_indexed(path, a))

NextIndex ==
    IndexByKey \/ IndexByPosition \/ IndexByRange \/ IndexByIndexer
        \/ IndexByPath

SpecIndex == InitIndex /\ [][NextIndex]_vars

(* What an index resolves to, read off the tree: the children of a node    *)
(* by step, and the nodes of a tree by path.                               *)
Children(v) ==
    IF v.t = "Object"
    THEN {<<ObjInd(v.members[i].key), v.members[i].val>> :
            i \in 1..Len(v.members)}
    ELSE IF v.t = "Array"
    THEN {<<ArrInd(i - 1), v.elems[i]>> : i \in 1..Len(v.elems)}
    ELSE {}

RECURSIVE Nodes(_)
Nodes(v) ==
    {<<<<>>, v>>}
        \cup UNION {{<<<<c[1]>> \o n[1], n[2]>> : n \in Nodes(c[2])} :
                      c \in Children(v)}

(* The value the index in prev addresses in a, if there is one.            *)
Addresses(x) ==
    CASE prev.kind = "key" -> <<ObjInd(prev.key), x>> \in Children(a)
      [] prev.kind = "position" -> <<ArrInd(prev.i), x>> \in Children(a)
      [] prev.kind = "indexer" -> <<prev.indexer, x>> \in Children(a)
      [] prev.kind = "path" -> <<prev.path, x>> \in Nodes(a)
      [] prev.kind = "range" ->
            /\ a.t = "Array"
            /\ prev.start <= prev.end
            /\ Len(x) = prev.end - prev.start
            /\ \A i \in 1..Len(x) :
                  <<ArrInd(prev.start + i - 1), x[i]>> \in Children(a)

Addressable ==
    CASE prev.kind = "range" ->
            a.t = "Array" /\ prev.start <= prev.end
                /\ prev.end <= Len(a.elems)
      [] prev.kind = "path" -> \E n \in Nodes(a) : n[1] = prev.path
      [] OTHER -> \E c \in Children(a) :
                    c[1] = CASE prev.kind = "key" -> ObjInd(prev.key)
                             [] prev.kind = "position" -> ArrInd(prev.i)
                             [] prev.kind = "indexer" -> prev.indexer

(* C13: get never panics and is None exactly when the index kind does not  *)
(* match the variant, the key is absent, the position or range is out of   *)
(* bounds or a step of the path does not resolve; when get is Some(x) the  *)
(* direct form gives x, when get is None the direct form panics; the empty *)
(* path resolves to the value itself.                                      *)
TryAndDirectAgree ==
    pc = "indexed" =>
        /\ res.get.some <=> Addressable
        /\ res.get.some => Addresses(res.get.val)
        /\ res.get.some => ~res.direct.panic /\ res.direct.val = res.get.val
        /\ ~res.get.some => res.direct.panic
        /\ (prev.kind = "path" /\ prev.path = <<>>) => res.get = Some(a)

(* A path whose first step resolves and whose second does not has been     *)
(* tried both ways.                                                        *)
TryAndDirectAgreeWitness ==
    /\ pc = "indexed"
    /\ prev.kind = "path"
    /\ Len(prev.path) = 2
    /\ gotten(prev.path[1], a).some
    /\ ~res.get.some
    /\ res.direct.panic

----------------------------------------------------------------------------
(* Failing productions inside documents: the text up to a place where the  *)
(* parser starts a value or a key, then a production that fails, then      *)
(* possibly more text.                                                     *)

ValueContexts ==
    {<<>>, <<Ch.lbracket>>, <<Ch.lbracket, Ch.one, Ch.comma>>,
     <<Ch.lbrace, Ch.quote, Ch.a, Ch.quote, Ch.colon>>,
     <<Ch.lbracket, Ch.lbracket>>,
     <<Ch.lbrace, Ch.quote, Ch.a, Ch.quote, Ch.colon, Ch.lbracket, Ch.one, Ch.comma, Ch.space>>,
     <<Ch.lbracket, Ch.lbrace, Ch.quote, Ch.b, Ch.quote, Ch.colon, Ch.one, Ch.comma, Ch.quote, Ch.a, Ch.quote, Ch.colon>>,
     <<Ch.lbracket, Ch.space, Ch.lbrace, Ch.quote, Ch.a, Ch.quote, Ch.colon, Ch.lf, Ch.lbracket>>}

KeyContexts ==
    {<<Ch.lbrace>>,
     <<Ch.lbrace, Ch.quote, Ch.a, Ch.quote, Ch.colon, Ch.one, Ch.comma>>,
     <<Ch.lbracket, Ch.lbrace>>,
     <<Ch.lbracket, Ch.one, Ch.comma, Ch.lf, Ch.lbrace, Ch.space>>}

FailingValues ==
    {<<Ch.t, Ch.r, Ch.u, Ch.x>>, <<Ch.n, Ch.u, Ch.l>>, <<Ch.minus>>,
     <<Ch.one, Ch.dot>>, <<Ch.one, Ch.e>>,
     <<Ch.quote, Ch.backslash, Ch.b, Ch.quote>>,
     <<Ch.quote, Ch.backslash, Ch.x, Ch.quote>>,
     <<Ch.quote, Ch.a, Ch.lf, Ch.quote>>,
     <<Ch.quote, Ch.backslash, Ch.u, Ch.d, Ch.eight, Ch.zero, Ch.zero, Ch.quote>>,
     <<Ch.question>>, <<Ch.lbracket, Ch.one, Ch.comma, Ch.rbracket>>,
     <<Ch.lbrace, Ch.quote, Ch.a, Ch.quote, Ch.rbrace>>,
     <<Ch.lbracket, Ch.minus, Ch.rbracket>>,
     <<Ch.lbrace, Ch.quote, Ch.a, Ch.quote, Ch.colon, Ch.t, Ch.rbrace>>}

FailingKeys ==
    {<<Ch.quote, Ch.backslash, Ch.b, Ch.quote, Ch.colon, Ch.one>>,
     <<Ch.quote, Ch.a, Ch.lf, Ch.quote, Ch.colon, Ch.one>>,
     <<Ch.quote, Ch.backslash, Ch.u, Ch.zero, Ch.zero, Ch.x, Ch.zero, Ch.quote, Ch.colon, Ch.one>>,
     <<Ch.quote, Ch.backslash, Ch.f, Ch.quote>>}

Rests ==
    {<<>>, <<Ch.rbracket>>, <<Ch.rbrace>>,
     <<Ch.comma, Ch.one, Ch.rbracket>>,
     <<Ch.space, Ch.comma, Ch.quote, Ch.b, Ch.quote, Ch.colon, Ch.two, Ch.rbrace>>}

InitNested ==
    /\ \/ pc = "value_context" /\ text \in ValueContexts
       \/ pc = "key_context" /\ text \in KeyContexts
    /\ a = Null
    /\ b = Null
    /\ mark = 0
    /\ res = Null
    /\ prev = Null

(* The failing production is put where the parser starts a production;     *)
(* mark is the index of its first character.                               *)
AppendFailing ==
    /\ pc \in {"value_context", "key_context"}
    /\ \E bad \in IF pc = "value_context" THEN FailingValues
                   ELSE FailingKeys :
          text' = text \o bad
    /\ mark' = Len(text) + 1
    /\ pc' = "failing"
    /\ UNCHANGED <<a, b, res, prev>>

AppendRest ==
    /\ pc = "failing"
    /\ \E rest \in Rests : text' = text \o rest
    /\ pc' = "failing_rest"
    /\ UNCHANGED <<a, b, mark, res, prev>>

(* The lexer cursor at the i-th character of a text without carriage       *)
(* returns.                                                                *)
CursorAt(s, i) == CurAt(RawJson(s), PositionOf(s, i)[1], PositionOf(s, i)[2])

(* Parser::parse_value on the document; prev keeps what parse_value        *)
(* returns for the nested production alone, started at mark.               *)
ParseNested ==
    /\ pc \in {"failing", "failing_rest"}
    /\ res' = parse_value(RawJson(text), LexerNew(RawJson(text)))
    /\ prev' = parse_value(RawJson(text), CursorAt(text, mark))
    /\ pc' = "nested_parsed"
    /\ UNCHANGED <<a, b, text, mark>>

NextNested == AppendFailing \/ AppendRest \/ ParseNested

SpecNested == InitNested /\ [][NextNested]_vars

(* C14: when a nested production fails, the parse of the document returns  *)
(* that same error, with the lexer where the nested production left it,    *)
(* and no value.                                                           *)
FirstErrorReturned ==
    pc = "nested_parsed" =>
        /\ ~prev.ok
        /\ ~res.ok
        /\ res.err = prev.err
        /\ res.pos = prev.pos
        /\ res.end = prev.end
        /\ res.cur = prev.cur
        /\ res.val = Null

(* An array element inside an object member has failed, with text that     *)
(* would close the containers behind it.                                   *)
FirstErrorReturnedWitness ==
    /\ pc = "nested_parsed"
    /\ mark > 6
    /\ text[mark] = Ch.minus
    /\ text[Len(text)] = Ch.rbracket
    /\ ~res.ok
    /\ res.err = "EmptyDigits"
    /\ res.pos = PositionOf(text, mark)

----------------------------------------------------------------------------
(* The parser of src/parser.rs over the lexer of parser/lexer.rs, as a     *)
(* machine that takes one step per loop iteration.  Only the cursor and    *)
(* the containers being parsed are kept: the values do not influence the   *)
(* control flow.                                                           *)

(* impl From<&str> for RawJson of src/json.rs: the non-empty lines,        *)
(* without their line ends.                                                *)
json_from(s) == SelectSeq(SplitLf(ReplaceCrLf(s)), LAMBDA l : l # <<>>)

(* anyhow::Result of a parsing function, without the value: whether it is  *)
(* Ok, and the cursor it leaves.                                           *)
Returned(isOk, c) == [ok |-> isOk, cur |-> c]

(* Lexer::lex_n_chars of parser/lexer.rs: n items are consumed; the end of *)
(* input and an item of a later row than the first fail.                   *)
RECURSIVE LexChars(_, _, _, _, _)
LexChars(json, cur, n, sr, result) ==
    IF n = 0 THEN [ok |-> TRUE, str |-> result, cur |-> cur]
    ELSE IF ~cur.some THEN [ok |-> FALSE, str |-> result, cur |-> cur]
    ELSE IF sr < cur.row
    THEN [ok |-> FALSE, str |-> result, cur |-> LexerNext(json, cur)]
    ELSE LexChars(json, LexerNext(json, cur), n - 1, sr,
                  Append(result, cur.c))

lexer_lex_n_chars(json, cur, n) ==
    IF n = 0 THEN [ok |-> TRUE, str |-> <<>>, cur |-> cur]
    ELSE IF ~cur.some THEN [ok |-> FALSE, str |-> <<>>, cur |-> cur]
    ELSE LexChars(json, cur, n, cur.row, <<>>)

(* Parser::parse_bool and Parser::parse_null of src/parser.rs.             *)
parser_parse_immediate(json, cur, n, literal) ==
    LET lexed == lexer_lex_n_chars(json, cur, n)
    IN  Returned(lexed.ok /\ lexed.str = literal, lexed.cur)

(* Parser::parse_number of src/parser.rs: Ok, nothing is consumed.         *)
parser_parse_number(json, cur) == Returned(TRUE, cur)

(* Parser::parse_escape_sequence of src/parser.rs.                         *)
parser_parse_escape_sequence(json, cur) ==
    LET escape == LexerNext(json, cur)
        after == LexerNext(json, escape)
        hex4digits == lexer_lex_n_chars(json, after, 4)
    IN  IF ~(cur.some /\ cur.c = Ch.backslash) THEN Returned(FALSE, cur)
        ELSE IF ~escape.some THEN Returned(FALSE, escape)
        ELSE IF escape.c = Ch.u
        THEN Returned(/\ hex4digits.ok
                      /\ FromStrRadix16(hex4digits.str).ok
                      /\ IsChar(FromStrRadix16(hex4digits.str).n),
                      hex4digits.cur)
        ELSE Returned(escape.c \in {Ch.quote, Ch.backslash, Ch.slash, Ch.n,
                                    Ch.r, Ch.t},
                      after)

(* Parser::parse_string of src/parser.rs, the loop: row is the row of the  *)
(* opening quotation mark.                                                 *)
RECURSIVE parser_string_loop(_, _, _)
parser_string_loop(json, cur, row) ==
    LET escaped == parser_parse_escape_sequence(json, cur)
    IN  IF is_next(json, cur, "String", Tok("Quotation"), FALSE).yes
        THEN Returned(TRUE, LexerNext(json, cur))
        ELSE IF ~cur.some \/ row < cur.row THEN Returned(FALSE, cur)
        ELSE IF cur.c # Ch.backslash
        THEN parser_string_loop(json, LexerNext(json, cur), row)
        ELSE IF escaped.ok THEN parser_string_loop(json, escaped.cur, row)
        ELSE escaped

parser_parse_string(json, cur) ==
    IF cur.some /\ cur.c = Ch.quote
    THEN parser_string_loop(json, LexerNext(json, cur), cur.row)
    ELSE Returned(FALSE, cur)

(* Parser::parse_value of src/parser.rs for a value that is no container;  *)
(* at is the cursor behind the whitespace.                                 *)
parser_parse_scalar(json, at) ==
    CASE at.c = Ch.t -> parser_parse_immediate(json, at, 4, TrueLit)
      [] at.c = Ch.f -> parser_parse_immediate(json, at, 5, FalseLit)
      [] at.c = Ch.n -> parser_parse_immediate(json, at, 4, NullLit)
      [] at.c = Ch.minus \/ IsDigit(at.c) -> parser_parse_number(json, at)
      [] at.c = Ch.quote -> parser_parse_string(json, at)
      [] OTHER -> Returned(FALSE, at)

(* A container being parsed: its kind, how many iterations of its loop     *)
(* have begun, and the cursor at the begin of the latest iteration and of  *)
(* the one before.                                                         *)
Entered(kind) ==
    [kind |-> kind, n |-> 0, at |-> NoCur, last |-> NoCur]
Iterated(stack, cur) ==
    [stack EXCEPT ![Len(stack)] =
        [kind |-> @.kind, n |-> @.n + 1, at |-> cur, last |-> @.at]]

(* Where a call of parse_value returns to: the caller, or the loop of the  *)
(* container the value is in.                                              *)
ReturnTo(stack) == IF stack = <<>> THEN "loop_returned" ELSE "loop_member"

MaxIterations == 6
MaxPieces == 4

LoopPieces ==
    {<<Ch.lbrace>>, <<Ch.rbrace>>, <<Ch.lbracket>>, <<Ch.rbracket>>,
     <<Ch.quote, Ch.a, Ch.quote, Ch.colon>>,
     <<Ch.quote, Ch.backslash, Ch.slash, Ch.quote>>, <<Ch.one>>,
     <<Ch.comma>>, <<Ch.space>>, <<Ch.n, Ch.u, Ch.l, Ch.l>>, <<Ch.lf>>}

RECURSIVE Concatenated(_)
Concatenated(ps) ==
    IF ps = <<>> THEN <<>> ELSE Head(ps) \o Concatenated(Tail(ps))

LoopTexts == {Concatenated(ps) : ps \in SeqsUpTo(LoopPieces, MaxPieces)}

InitLoop ==
    /\ pc = "loop_value"
    /\ text \in LoopTexts
    /\ a = <<>>
    /\ b = Null
    /\ mark = 0
    /\ res = LexerNew(json_from(text))
    /\ prev = Null

(* Parser::parse_value of src/parser.rs up to the loop of a container:     *)
(* res is the lexer's cursor, a the containers entered.                    *)
StartValue ==
    /\ pc = "loop_value"
    /\ LET json == json_from(text)
           at == skip_whitespace(json, res)
       IN  IF ~at.some
           THEN pc' = "loop_failed" /\ res' = at /\ a' = a
           ELSE IF at.c = Ch.lbrace
           THEN /\ pc' = "loop_head"
                /\ res' = LexerNext(json, at)
                /\ a' = Append(a, Entered("object"))
           ELSE IF at.c = Ch.lbracket
           THEN /\ pc' = "loop_head"
                /\ res' = LexerNext(json, at)
                /\ a' = Append(a, Entered("array"))
           ELSE /\ pc' = IF parser_parse_scalar(json, at).ok THEN ReturnTo(a)
                         ELSE "loop_failed"
                /\ res' = parser_parse_scalar(json, at).cur
                /\ a' = a
    /\ UNCHANGED <<b, text, mark, prev>>

(* Parser::parse_object of src/parser.rs: one evaluation of the loop       *)
(* condition, then either the lines behind the loop or the loop body up to *)
(* the call of parse_value.                                                *)
ObjectIteration ==
    /\ pc = "loop_head"
    /\ a[Len(a)].kind = "object"
    /\ mark < MaxIterations
    /\ LET json == json_from(text)
           close == is_next(json, res, "Main", Tok("RightBrace"), TRUE)
           key == parser_parse_string(json, close.cur)
           colon == lex_1_char(json, key.cur, "Main", Tok("Colon"), TRUE)
       IN  IF close.yes
           THEN /\ pc' = ReturnTo(SubSeq(a, 1, Len(a) - 1))
                /\ res' = LexerNext(json, close.cur)
                /\ a' = SubSeq(a, 1, Len(a) - 1)
                /\ mark' = mark
           ELSE /\ a' = Iterated(a, res)
                /\ mark' = mark + 1
                /\ IF ~(close.cur.some /\ close.cur.c = Ch.quote)
                   THEN pc' = "loop_head" /\ res' = close.cur
                   ELSE IF ~key.ok
                   THEN pc' = "loop_failed" /\ res' = key.cur
                   ELSE IF ~colon.ok
                   THEN pc' = "loop_failed" /\ res' = colon.cur
                   ELSE pc' = "loop_value" /\ res' = colon.cur
    /\ UNCHANGED <<b, text, prev>>

(* Parser::parse_array of src/parser.rs, likewise.                         *)
ArrayIteration ==
    /\ pc = "loop_head"
    /\ a[Len(a)].kind = "array"
    /\ mark < MaxIterations
    /\ LET json == json_from(text)
           close == is_next(json, res, "Main", Tok("RightBracket"), TRUE)
       IN  IF close.yes
           THEN /\ pc' = ReturnTo(SubSeq(a, 1, Len(a) - 1))
                /\ res' = LexerNext(json, close.cur)
                /\ a' = SubSeq(a, 1, Len(a) - 1)
                /\ mark' = mark
           ELSE /\ a' = Iterated(a, res)
                /\ mark' = mark + 1
                /\ pc' = "loop_value"
                /\ res' = close.cur
    /\ UNCHANGED <<b, text, prev>>

(* The rest of the loop body of parse_object and parse_array, behind the   *)
(* call of parse_value: a comma is consumed if there is one, and must not  *)
(* be followed by the closing token.                                       *)
MemberParsed ==
    /\ pc = "loop_member"
    /\ LET json == json_from(text)
           comma == lex_1_char(json, res, "Main", Tok("Comma"), TRUE)
           is_end == is_next(json, comma.cur, "Main",
                             IF a[Len(a)].kind = "object"
                             THEN Tok("RightBrace") ELSE Tok("RightBracket"),
                             TRUE)
       IN  IF comma.ok
           THEN /\ pc' = IF is_end.yes THEN "loop_failed" ELSE "loop_head"
                /\ res' = is_end.cur
           ELSE /\ pc' = "loop_head"
                /\ res' = comma.cur
    /\ UNCHANGED <<a, b, text, mark, prev>>

NextLoop == StartValue \/ ObjectIteration \/ ArrayIteration \/ MemberParsed

SpecLoop == InitLoop /\ [][NextLoop]_vars

(* C15: every iteration of the object loop of src/parser.rs begins with    *)
(* the cursor further on than the iteration before it, so that the loop    *)
(* ends on a finite text.                                                  *)
ObjectLoopAdvances ==
    pc \in {"loop_value", "loop_head", "loop_member"} =>
        \A i \in 1..Len(a) :
            a[i].kind = "object" /\ a[i].n >= 2 => a[i].at # a[i].last

----------------------------------------------------------------------------
(* Object literals written member by member, with keys that may repeat and *)
(* with or without a comma between the members; a holds the members as     *)
(* written, mark the number of members written without a comma before.    *)

MaxMembers == 3

LiteralKeys == {<<Ch.a>>, <<Ch.b>>, <<Ch.c>>}
LiteralValues == {One, Two, Array(<<Two, One>>)}
Separators == {<<Ch.comma>>, <<Ch.space>>}

InitLiteral ==
    /\ pc = "literal_members"
    /\ text = <<Ch.lbrace>>
    /\ a = <<>>
    /\ b = Null
    /\ mark = 0
    /\ res = Null
    /\ prev = Null

WriteMember ==
    /\ pc = "literal_members"
    /\ Len(a) < MaxMembers
    /\ \E k \in LiteralKeys, v \in LiteralValues, sep \in Separators :
          /\ text' = text \o (IF a = <<>> THEN <<>> ELSE sep)
                          \o quote(k) \o <<Ch.colon>> \o to_string(v)
          /\ a' = Append(a, Member(k, v))
          /\ mark' = IF a # <<>> /\ sep # <<Ch.comma>> THEN mark + 1
                     ELSE mark
    /\ UNCHANGED <<pc, b, res, prev>>

CloseLiteral ==
    /\ pc = "literal_members"
    /\ text' = Append(text, Ch.rbrace)
    /\ pc' = "literal_closed"
    /\ UNCHANGED <<a, b, mark, res, prev>>

(* Parser::parse_value on the literal, which goes to parse_object.         *)
ParseLiteral ==
    /\ pc = "literal_closed"
    /\ res' = parse_value(RawJson(text), LexerNew(RawJson(text)))
    /\ pc' = "literal_parsed"
    /\ UNCHANGED <<a, b, text, mark, prev>>

(* Display and Value::stringify of the parsed object.                      *)
RenderLiteral ==
    /\ pc = "literal_parsed"
    /\ res.ok
    /\ prev' = [compact |-> to_string(res.val), pretty |-> stringify(res.val)]
    /\ pc' = "literal_rendered"
    /\ UNCHANGED <<a, b, text, mark, res>>

NextLiteral == WriteMember \/ CloseLiteral \/ ParseLiteral \/ RenderLiteral

SpecLiteral == InitLiteral /\ [][NextLiteral]_vars

(* The members as written that are the last with their key, and the keys   *)
(* in the order of their first appearance with the value written last.     *)
LastOccurrences(ms) ==
    LET kept == {i \in 1..Len(ms) :
                    \A j \in (i + 1)..Len(ms) : ms[j].key # ms[i].key}
        Nth(n) == CHOOSE i \in kept : Cardinality({j \in kept : j < i}) = n - 1
    IN  [n \in 1..Cardinality(kept) |-> ms[Nth(n)]]

FirstPositions(ms) ==
    LET kept == {i \in 1..Len(ms) :
                    \A j \in 1..(i - 1) : ms[j].key # ms[i].key}
        Nth(n) == CHOOSE i \in kept : Cardinality({j \in kept : j < i}) = n - 1
        LastOf(k) == CHOOSE i \in 1..Len(ms) :
                        /\ ms[i].key = k
                        /\ \A j \in (i + 1)..Len(ms) : ms[j].key # k
    IN  [n \in 1..Cardinality(kept) |->
            Member(ms[Nth(n)].key, ms[LastOf(ms[Nth(n)].key)].val)]

DistinctKeys(ms) == \A i, j \in 1..Len(ms) : i # j => ms[i].key # ms[j].key

(* C16 as stated: a repeated key keeps the position of its first           *)
(* occurrence and has the value of its last.                               *)
DuplicateKeepsFirstPosition ==
    pc = "literal_parsed" /\ mark = 0 =>
        res.ok /\ res.val = Object(FirstPositions(a))

(* C16: an object literal with a repeated key parses to an Object with one *)
(* entry for the key, holding the value of the key's last occurrence, at   *)
(* the position of that last occurrence among the entries; the other keys  *)
(* keep their relative order.                                              *)
DuplicateMovesToEnd ==
    pc = "literal_parsed" /\ mark = 0 =>
        res.ok /\ res.val = Object(LastOccurrences(a))

(* A key is written, another key after it, then the first key again with   *)
(* another value.                                                          *)
DuplicateMovesToEndWitness ==
    /\ pc = "literal_parsed"
    /\ mark = 0
    /\ Len(a) = 3
    /\ a[1].key = a[3].key
    /\ a[1].key # a[2].key
    /\ a[1].val # a[3].val
    /\ res.ok
    /\ Len(res.val.members) = 2
    /\ res.val.members[2] = a[3]

(* The letters and digits of a text, in their order.                       *)
Significant(s) ==
    SelectSeq(s, LAMBDA c : c \in {Ch.a, Ch.b, Ch.c, Ch.one, Ch.two})

MissingCommaRejected ==
    pc = "literal_parsed" /\ mark > 0 => ~res.ok

----------------------------------------------------------------------------
(* The lexer driven by peek and next alone; a is the log of the calls made *)
(* and of what they returned.                                              *)

MaxBufferLen == 3
MaxCalls == 6

BufferChars == {Ch.a, Ch.space, Ch.lf}
BufferTexts ==
    SeqsUpTo(BufferChars, MaxBufferLen) \cup {<<Ch.a, Ch.cr, Ch.lf, Ch.b>>}

InitTraverse ==
    /\ pc = "traverse"
    /\ text \in BufferTexts
    /\ a = <<>>
    /\ b = Null
    /\ mark = 0
    /\ res = LexerNew(RawJson(text))
    /\ prev = Null

(* Lexer::peek: the current item; the cursor stays.                        *)
LexerPeek ==
    /\ pc = "traverse"
    /\ Len(a) < MaxCalls
    /\ a' = Append(a, [op |-> "peek", item |-> res])
    /\ UNCHANGED <<pc, b, text, mark, res, prev>>

(* Iterator::next: the current item; the cursor moves on.                  *)
IteratorNext ==
    /\ pc = "traverse"
    /\ Len(a) < MaxCalls
    /\ a' = Append(a, [op |-> "next", item |-> res])
    /\ res' = LexerNext(RawJson(text), res)
    /\ UNCHANGED <<pc, b, text, mark, prev>>

NextTraverse == LexerPeek \/ IteratorNext

SpecTraverse == InitTraverse /\ [][NextTraverse]_vars

(* The characters of a buffer with their positions, row after row, read    *)
(* off the rows.                                                           *)
RowMajor(json) ==
    Concatenated([r \in 1..Len(json) |->
        [c \in 1..Len(json[r]) |->
            [some |-> TRUE, row |-> r - 1, col |-> c - 1, c |-> json[r][c]]]])

NextItems(log) ==
    LET nexts == SelectSeq(log, LAMBDA call : call.op = "next")
    IN  [i \in 1..Len(nexts) |-> nexts[i].item]

(* C22: the calls of next return the characters of the buffer once each in *)
(* row-major order with their positions and then None for ever; a peek     *)
(* returns what the following call returns, whether peek or next.          *)
CursorTraversal ==
    pc = "traverse" =>
        /\ \A i \in 1..Len(NextItems(a)) :
              NextItems(a)[i] = IF i <= Len(RowMajor(RawJson(text)))
                                THEN RowMajor(RawJson(text))[i]
                                ELSE NoCur
        /\ \A i \in 1..(Len(a) - 1) :
              a[i].op = "peek" => a[i + 1].item = a[i].item
        /\ Len(NextItems(a)) >= Len(RowMajor(RawJson(text))) => res = NoCur

(* A buffer of two rows has been read to its end, with a peek before the   *)
(* row change and calls behind the end.                                    *)
CursorTraversalWitness ==
    /\ pc = "traverse"
    /\ text = <<Ch.a, Ch.lf, Ch.a>>
    /\ Len(a) = 6
    /\ a[2].op = "peek"
    /\ a[3].op = "next"
    /\ a[3].item.col = 1
    /\ a[4].item.row = 1
    /\ a[6].item = NoCur
    /\ Len(NextItems(a)) = 5

----------------------------------------------------------------------------
(* The lexer of syntax/lexer.rs with the tokens of syntax/token: stick,    *)
(* branch, lex, seek and cursor.                                           *)

(* LL1: a character looked ahead or a string tokenized.                    *)
Lookahead(c) == [look |-> TRUE, s |-> <<c>>]
Tokenized(s) == [look |-> FALSE, s |-> s]
NoLL1 == [look |-> FALSE, s |-> <<>>]

(* A token: the enum, the variant and, where the variant carries one, the  *)
(* LL1.                                                                    *)
Token(enum, variant) == [fam |-> enum, k |-> variant, ll |-> NoLL1]
TokenLL1(enum, variant, ll1) == [fam |-> enum, k |-> variant, ll |-> ll1]

(* impl Display of the token enums.                                        *)
token_to_string(token) ==
    CASE token.k = "True" -> TrueLit
      [] token.k = "False" -> FalseLit
      [] token.k = "Null" -> NullLit
      [] token.k = "LeftBrace" -> <<Ch.lbrace>>
      [] token.k = "RightBrace" -> <<Ch.rbrace>>
      [] token.k = "Colon" -> <<Ch.colon>>
      [] token.k = "Comma" -> <<Ch.comma>>
      [] token.k = "Zero" -> <<Ch.zero>>
      [] token.k = "Plus" -> <<Ch.plus>>
      [] token.k = "Minus" -> <<Ch.minus>>
      [] token.k = "Dot" -> <<Ch.dot>>
      [] token.k = "Exponent" -> <<Ch.e>>
      [] token.k \in {"Digit", "OneNine"} -> token.ll.s

(* LL1Token::lookahead of ImmediateToken, ObjectToken, NumericToken,       *)
(* DigitsToken and ExponentToken: Ok(token) or an error.                   *)
Looked(token) == [ok |-> TRUE, token |-> token]
Unmatched == [ok |-> FALSE, token |-> Token("", "")]

lookahead(enum, c) ==
    CASE enum = "Immediate" ->
            (CASE c = Ch.t -> Looked(Token(enum, "True"))
               [] c = Ch.f -> Looked(Token(enum, "False"))
               [] c = Ch.n -> Looked(Token(enum, "Null"))
               [] OTHER -> Unmatched)
      [] enum = "Object" ->
            (CASE c = Ch.lbrace -> Looked(Token(enum, "LeftBrace"))
               [] c = Ch.rbrace -> Looked(Token(enum, "RightBrace"))
               [] c = Ch.colon -> Looked(Token(enum, "Colon"))
               [] c = Ch.comma -> Looked(Token(enum, "Comma"))
               [] OTHER -> Unmatched)
      [] enum = "Numeric" ->
            (CASE c = Ch.zero -> Looked(Token(enum, "Zero"))
               [] c > Ch.zero /\ c <= Ch.nine ->
                    Looked(TokenLL1(enum, "OneNine", Lookahead(c)))
               [] c = Ch.plus -> Looked(Token(enum, "Plus"))
               [] c = Ch.minus -> Looked(Token(enum, "Minus"))
               [] c = Ch.dot -> Looked(Token(enum, "Fraction"))
               [] c \in {Ch.e, Ch.bigE} -> Looked(Token(enum, "Exponent"))
               [] OTHER -> Unmatched)
      [] enum = "Digits" ->
            IF IsDigit(c) THEN Looked(TokenLL1(enum, "Digit", Lookahead(c)))
            ELSE Unmatched
      [] enum = "Exponent" ->
            (CASE IsDigit(c) -> Looked(TokenLL1(enum, "Digit", Lookahead(c)))
               [] c = Ch.plus -> Looked(Token(enum, "Plus"))
               [] c = Ch.minus -> Looked(Token(enum, "Minus"))
               [] c \in {Ch.e, Ch.bigE} -> Looked(Token(enum, "Exponent"))
               [] OTHER -> Unmatched)

(* LL1Token::tokenize: the immediates by their text; the others through    *)
(* LL1::ahead and lookahead, a digit becoming Tokenized.                   *)
tokenize(enum, s) ==
    IF enum = "Immediate"
    THEN CASE s = TrueLit -> Looked(Token(enum, "True"))
           [] s = FalseLit -> Looked(Token(enum, "False"))
           [] s = NullLit -> Looked(Token(enum, "Null"))
           [] OTHER -> Unmatched
    ELSE IF Len(s) # 1 \/ ~lookahead(enum, s[1]).ok THEN Unmatched
    ELSE IF lookahead(enum, s[1]).token.ll.look
    THEN Looked([lookahead(enum, s[1]).token EXCEPT !.ll = Tokenized(s)])
    ELSE lookahead(enum, s[1])

(* SkipWhiteSpace::skip_ws of the Symbol of the token enum.                *)
skip_ws(enum) == enum \in {"Immediate", "Object"}

(* RawJson::get(row, col), and Lexer::cursor, which sets the cursor from   *)
(* it.                                                                     *)
get(json, row, col) ==
    IF row < rows(json) /\ col < Len(json[row + 1])
    THEN CurAt(json, row, col)
    ELSE NoCur

cursor(json, position) == get(json, position[1], position[2])

(* Lexer::stick.                                                           *)
stick(json, cur, enum) ==
    IF skip_ws(enum) THEN skip_whitespace(json, cur) ELSE cur

(* Lexer::branch: the token the next character starts; the cursor only     *)
(* moves over the whitespace.                                              *)
branch(json, cur, enum) ==
    LET stuck == stick(json, cur, enum)
    IN  IF stuck.some
        THEN [ok |-> lookahead(enum, stuck.c).ok,
              token |-> lookahead(enum, stuck.c).token, cur |-> stuck]
        ELSE [ok |-> FALSE, token |-> Unmatched.token, cur |-> stuck]

(* Iterator::take(n) on the lexer, collected: up to n characters are       *)
(* consumed.                                                               *)
RECURSIVE take(_, _, _)
take(json, cur, n) ==
    IF n = 0 \/ ~cur.some THEN [s |-> <<>>, cur |-> cur]
    ELSE LET rest == take(json, LexerNext(json, cur), n - 1)
         IN  [s |-> <<cur.c>> \o rest.s, cur |-> rest.cur]

(* Lexer::lex: ((start, end), lexeme) or an error with its span; cur is    *)
(* the cursor it leaves.                                                   *)
Lexed(json, stuck, taken, expected) ==
    [ok |-> tokenize(expected.fam, taken.s) = Looked(expected),
     err |-> IF tokenize(expected.fam, taken.s) = Looked(expected) THEN ""
             ELSE IF tokenize(expected.fam, taken.s).ok
             THEN "UnexpectedToken"
             ELSE "FailedTokenize",
     start |-> LexerPos(json, stuck), end |-> LexerPos(json, taken.cur),
     s |-> taken.s, cur |-> taken.cur]

lex(json, cur, expected) ==
    LET stuck == stick(json, cur, expected.fam)
    IN  IF stuck.some
        THEN Lexed(json, stuck,
                   take(json, stuck, Len(token_to_string(expected))),
                   expected)
        ELSE [ok |-> FALSE, err |-> "UnexpectedEof",
              start |-> LexerPos(json, stuck), end |-> LexerPos(json, stuck),
              s |-> <<>>, cur |-> stuck]

(* A variant that leaves the cursor where the failed lex left it.          *)
seek_without_rollback(json, cur, expected) == lex(json, cur, expected)

(* Lexer::seek: lex, and on an error the cursor goes back to where stick   *)
(* had put it.                                                             *)
seek(json, cur, expected) ==
    LET stuck == stick(json, cur, expected.fam)
        result == lex(json, stuck, expected)
    IN  IF result.ok \/ ~stuck.some THEN result
        ELSE [result EXCEPT !.cur = cursor(json, <<stuck.row, stuck.col>>)]

(* Buffers and calls: b is the last call with its result, prev the cursor  *)
(* before it.                                                              *)
MaxLexPieces == 2

LexPieces ==
    {<<Ch.t, Ch.r, Ch.u, Ch.e>>, <<Ch.t, Ch.r, Ch.u>>, <<Ch.comma>>,
     <<Ch.space>>, <<Ch.lf>>, <<Ch.bigE>>}

LexTexts == {Concatenated(ps) : ps \in SeqsUpTo(LexPieces, MaxLexPieces)}

Expectations ==
    {Token("Immediate", "True"), Token("Object", "LeftBrace"),
     Token("Object", "Comma"), Token("Exponent", "Exponent")}

CursorPositions == {<<0, 0>>, <<0, 1>>, <<0, 4>>, <<1, 0>>, <<1, 1>>, <<2, 0>>}

Called(op, result) == [op |-> op, result |-> result]

InitLexer ==
    /\ pc = "lexing"
    /\ text \in LexTexts
    /\ a = Null
    /\ b = Called("new", Null)
    /\ mark = 0
    /\ res = LexerNew(RawJson(text))
    /\ prev = NoCur

CallNext ==
    /\ pc = "lexing"
    /\ b' = Called("next", res)
    /\ res' = LexerNext(RawJson(text), res)
    /\ prev' = res
    /\ UNCHANGED <<pc, a, text, mark>>

CallPeek ==
    /\ pc = "lexing"
    /\ b' = Called("peek", res)
    /\ prev' = res
    /\ UNCHANGED <<pc, a, text, mark, res>>

CallSkipWhitespace ==
    /\ pc = "lexing"
    /\ b' = Called("skip_whitespace", skip_whitespace(RawJson(text), res))
    /\ res' = skip_whitespace(RawJson(text), res)
    /\ prev' = res
    /\ UNCHANGED <<pc, a, text, mark>>

CallCursor ==
    /\ pc = "lexing"
    /\ \E position \in CursorPositions :
          /\ b' = Called("cursor", position)
          /\ res' = cursor(RawJson(text), position)
    /\ prev' = res
    /\ UNCHANGED <<pc, a, text, mark>>

CallLex ==
    /\ pc = "lexing"
    /\ \E expected \in Expectations :
          /\ a' = expected
          /\ b' = Called("lex", lex(RawJson(text), res, expected))
          /\ res' = lex(RawJson(text), res, expected).cur
    /\ prev' = res
    /\ UNCHANGED <<pc, text, mark>>

CallSeek ==
    /\ pc = "lexing"
    /\ \E expected \in Expectations :
          /\ a' = expected
          /\ b' = Called("seek", seek(RawJson(text), res, expected))
          /\ res' = seek(RawJson(text), res, expected).cur
    /\ prev' = res
    /\ UNCHANGED <<pc, text, mark>>

NextLexer ==
    CallNext \/ CallPeek \/ CallSkipWhitespace \/ CallCursor \/ CallLex \/ CallSeek

SpecLexer == InitLexer /\ [][NextLexer]_vars

(* The position just behind the last character of the buffer, and the      *)
(* position of the row behind the last row.                                *)
BehindLastCharacter(json) ==
    IF json = <<>> THEN <<0, 0>> ELSE <<Len(json) - 1, Len(json[Len(json)])>>
BehindLastRow(json) == IF json = <<>> THEN <<0, 0>> ELSE <<Len(json), 0>>

InBuffer(json, cur) ==
    /\ cur.row < Len(json)
    /\ cur.col < Len(json[cur.row + 1])
    /\ cur.c = json[cur.row + 1][cur.col + 1]

(* C23 as stated: the position of the exhausted lexer is (rows, 0).        *)
LexerPositionRowsZero ==
    pc = "lexing" =>
        IF res.some THEN InBuffer(RawJson(text), res)
        ELSE LexerPos(RawJson(text), res) = BehindLastRow(RawJson(text))

(* C23: after any sequence of lexer calls the cursor is on a character of  *)
(* the buffer, or the lexer is exhausted and its position is the one just  *)
(* behind the last character of the last row, (0, 0) for an empty buffer.  *)
LexerPositionValid ==
    pc = "lexing" =>
        IF res.some
        THEN /\ InBuffer(RawJson(text), res)
             /\ LexerPos(RawJson(text), res) = <<res.row, res.col>>
        ELSE LexerPos(RawJson(text), res)
                 = BehindLastCharacter(RawJson(text))

(* A failed lex has exhausted the lexer of a buffer of two rows.           *)
LexerPositionValidWitness ==
    /\ pc = "lexing"
    /\ Len(RawJson(text)) = 2
    /\ b.op = "lex"
    /\ ~b.result.ok
    /\ prev.some
    /\ ~res.some
    /\ LexerPos(RawJson(text), res) = <<1, Len(RawJson(text)[2])>>


(* The cursor n calls of next behind cur.                                  *)
RECURSIVE Advanced(_, _, _)
Advanced(json, cur, n) ==
    IF n = 0 THEN cur ELSE Advanced(json, LexerNext(json, cur), n - 1)

(* The characters the buffer holds from cur on, n of them at most.         *)
RECURSIVE Ahead(_, _, _)
Ahead(json, cur, n) ==
    IF n = 0 \/ ~cur.some THEN <<>>
    ELSE <<cur.c>> \o Ahead(json, LexerNext(json, cur), n - 1)

NotBefore(p, q) == p[1] > q[1] \/ (p[1] = q[1] /\ p[2] >= q[2])

(* What seek(a) did from the cursor prev, where TokenStart is the cursor   *)
(* after the whitespace the token's symbol lets skip.                      *)
TokenStart == stick(RawJson(text), prev, a.fam)

SeekSucceeded ==
    /\ TokenStart.some
    /\ b.result.start = <<TokenStart.row, TokenStart.col>>
    /\ b.result.s
           = Ahead(RawJson(text), TokenStart, Len(token_to_string(a)))
    /\ Len(b.result.s) = Len(token_to_string(a))
    /\ tokenize(a.fam, b.result.s) = Looked(a)
    /\ res = Advanced(RawJson(text), TokenStart, Len(b.result.s))
    /\ b.result.end = LexerPos(RawJson(text), res)

SeekFailed ==
    /\ res = TokenStart
    /\ skip_ws(a.fam) /\ res.some => res.c \notin {Ch.space, Ch.lf, Ch.cr, Ch.tab}
    /\ ~skip_ws(a.fam) => res = prev

SeekNotBefore ==
    NotBefore(LexerPos(RawJson(text), res), LexerPos(RawJson(text), TokenStart))

(* C25 as stated: moreover the lexeme of a successful seek is the text of  *)
(* the expected token.                                                     *)
SeekLexemeIsTokenText ==
    pc = "lexing" /\ b.op = "seek" =>
        /\ IF b.result.ok
           THEN SeekSucceeded /\ b.result.s = token_to_string(a)
           ELSE SeekFailed
        /\ SeekNotBefore

(* C25: a successful seek leaves the cursor just behind the token and      *)
(* returns the span from the token start to that position with the         *)
(* characters consumed, which tokenize to the expected token; a failed     *)
(* seek leaves the cursor on the token start, the position after the       *)
(* whitespace skip; the cursor is never before the token start.            *)
SeekRollback ==
    pc = "lexing" /\ b.op = "seek" =>
        /\ IF b.result.ok THEN SeekSucceeded ELSE SeekFailed
        /\ SeekNotBefore

(* seek(True) failed on " tru" and the cursor is back on the t.            *)
SeekRollbackWitness ==
    /\ pc = "lexing"
    /\ b.op = "seek"
    /\ a = Token("Immediate", "True")
    /\ ~b.result.ok
    /\ b.result.err = "FailedTokenize"
    /\ prev.some
    /\ prev.c = Ch.space
    /\ res.some
    /\ res.c = Ch.t
    /\ b.result.end # b.result.start

----------------------------------------------------------------------------
(* JsonPath (ast/index_path.rs): a path is the sequence of its indexers.   *)

depth(path) == Len(path)

(* JsonPath::push and JsonPath::pop (Vec::pop does nothing to an empty     *)
(* vector).                                                                *)
push(path, indexer) == Append(path, indexer)
pop(path) == IF path = <<>> THEN path ELSE SubSeq(path, 1, Len(path) - 1)

(* A variant that pushes every step equal in both paths.                   *)
RECURSIVE lca_filtered(_, _)
lca_filtered(pa, pb) ==
    IF pa = <<>> \/ pb = <<>> THEN <<>>
    ELSE IF Head(pa) = Head(pb)
    THEN <<Head(pa)>> \o lca_filtered(Tail(pa), Tail(pb))
    ELSE lca_filtered(Tail(pa), Tail(pb))

(* JsonPath::lca: the steps of zip(a, b) are pushed while they are equal.  *)
RECURSIVE lca(_, _)
lca(pa, pb) ==
    IF pa = <<>> \/ pb = <<>> \/ Head(pa) # Head(pb) THEN <<>>
    ELSE <<Head(pa)>> \o lca(Tail(pa), Tail(pb))

(* JsonPath::split_last and JsonPath::parent.                              *)
split_last(path) ==
    IF path = <<>> THEN None
    ELSE Some(<<SubSeq(path, 1, Len(path) - 1), path[Len(path)]>>)

parent(path) ==
    IF split_last(path).some THEN Some(split_last(path).val[1]) ELSE None

(* A variant that scans 0..depth, the upper end excluded.                  *)
ancestors_exclusive(path) == [a |-> path, i |-> 0, end |-> depth(path) - 1]

(* JsonPath::ancestors: a scan of 0..=depth over a clone of the path, and  *)
(* the next() of that scan: the state is yielded, then popped.             *)
ancestors(path) == [a |-> path, i |-> 0, end |-> depth(path)]

scan_next(it) ==
    IF it.i > it.end THEN [item |-> None, it |-> it]
    ELSE [item |-> Some(it.a),
          it |-> [it EXCEPT !.a = pop(it.a), !.i = it.i + 1]]

MaxDepth == 3

PathIndexers == {ObjInd(KeyA), ArrInd(0), ArrInd(1)}

JsonPaths == SeqsUpTo(PathIndexers, MaxDepth)

(* a and b are the paths; res is the last call of lca or parent; prev the  *)
(* ancestors iterator with what it has yielded, and what the iterator of   *)
(* the call before yielded.                                                *)
Iterating(it, items, ended, first) ==
    [started |-> TRUE, it |-> it, items |-> items, ended |-> ended,
     first |-> first]
NotIterating ==
    [started |-> FALSE, it |-> ancestors(<<>>), items |-> <<>>,
     ended |-> FALSE, first |-> None]

InitPath ==
    /\ pc = "paths"
    /\ a \in JsonPaths
    /\ b \in JsonPaths
    /\ text = <<>>
    /\ mark = 0
    /\ res = Called("new", Null)
    /\ prev = NotIterating

CallLca ==
    /\ pc = "paths"
    /\ res' = Called("lca", [ab |-> lca(a, b), ba |-> lca(b, a),
                            aa |-> lca(a, a), root |-> lca(a, <<>>),
                            toor |-> lca(<<>>, a)])
    /\ UNCHANGED <<pc, a, b, text, mark, prev>>

CallParent ==
    /\ pc = "paths"
    /\ res' = Called("parent", parent(a))
    /\ UNCHANGED <<pc, a, b, text, mark, prev>>

CallAncestors ==
    /\ pc = "paths"
    /\ ~prev.started \/ (prev.ended /\ ~prev.first.some)
    /\ prev' = Iterating(ancestors(a), <<>>, FALSE,
                         IF prev.started THEN Some(prev.items) ELSE None)
    /\ UNCHANGED <<pc, a, b, text, mark, res>>

AncestorsNext ==
    /\ pc = "paths"
    /\ prev.started
    /\ ~prev.ended
    /\ prev' = IF scan_next(prev.it).item.some
               THEN [prev EXCEPT !.it = scan_next(prev.it).it,
                                 !.items = Append(prev.items,
                                               scan_next(prev.it).item.val)]
               ELSE [prev EXCEPT !.it = scan_next(prev.it).it,
                                 !.ended = TRUE]
    /\ UNCHANGED <<pc, a, b, text, mark, res>>

NextPath == CallLca \/ CallParent \/ CallAncestors \/ AncestorsNext

SpecPath == InitPath /\ [][NextPath]_vars

IsPrefix(p, q) == Len(p) <= Len(q) /\ p = SubSeq(q, 1, Len(p))

Min(m, n) == IF m <= n THEN m ELSE n

(* C26: lca(a, b) is a prefix of a and of b, and it is the longest: its    *)
(* depth is the smaller of the two depths, or a and b differ at the step   *)
(* behind it; lca(a, b) = lca(b, a), lca(a, a) = a, and the lca with the   *)
(* root path is the root path.                                             *)
LcaLongestCommonPrefix ==
    pc = "paths" /\ res.op = "lca" =>
        /\ IsPrefix(res.result.ab, a)
        /\ IsPrefix(res.result.ab, b)
        /\ \/ depth(res.result.ab) = Min(depth(a), depth(b))
           \/ a[depth(res.result.ab) + 1] # b[depth(res.result.ab) + 1]
        /\ res.result.ab = res.result.ba
        /\ res.result.aa = a
        /\ res.result.root = <<>>
        /\ res.result.toor = <<>>

(* Two paths of depth 3 that agree on the first and the last step only.    *)
LcaLongestCommonPrefixWitness ==
    /\ pc = "paths"
    /\ res.op = "lca"
    /\ depth(a) = 3
    /\ depth(b) = 3
    /\ a[2] # b[2]
    /\ a[3] = b[3]
    /\ depth(res.result.ab) = 1

(* C27: ancestors() yields the path itself, then the parent of what it     *)
(* yielded before, down to the root path, depth + 1 paths in all, and then *)
(* ends; a second call yields the same sequence; the parent of the root    *)
(* path is None.                                                           *)
AncestorsUpToRoot ==
    pc = "paths" =>
        /\ prev.started =>
              /\ Len(prev.items) <= depth(a) + 1
              /\ \A k \in 1..Len(prev.items) :
                    /\ prev.items[k] = SubSeq(a, 1, depth(a) - k + 1)
                    /\ k > 1 => parent(prev.items[k - 1]) = Some(prev.items[k])
              /\ prev.ended =>
                    /\ Len(prev.items) = depth(a) + 1
                    /\ prev.items[1] = a
                    /\ prev.items[Len(prev.items)] = <<>>
                    /\ prev.first.some => prev.items = prev.first.val
        /\ res.op = "parent" =>
              res.result = IF a = <<>> THEN None
                           ELSE Some(SubSeq(a, 1, depth(a) - 1))

(* The second iteration over the ancestors of a path of depth 3 has ended. *)
AncestorsUpToRootWitness ==
    /\ pc = "paths"
    /\ depth(a) = 3
    /\ prev.started
    /\ prev.ended
    /\ prev.first.some
    /\ Len(prev.items) = 4

----------------------------------------------------------------------------
(* Value::walk (ast/visit.rs).  A node is named by the positions leading   *)
(* to it from the root, in the iteration order of the containers.          *)

IsContainer(v) == v.t \in {"Object", "Array"}

(* m.iter() / v.iter(): the values a container iterates over.              *)
ValueIterator(v) ==
    CASE v.t = "Object" -> [i \in 1..Len(v.members) |-> v.members[i].val]
      [] v.t = "Array" -> v.elems
      [] OTHER -> <<>>

RECURSIVE NodeAt(_, _)
NodeAt(v, node) ==
    IF node = <<>> THEN v
    ELSE NodeAt(ValueIterator(v)[Head(node)], Tail(node))

(* enum DfsEvent.                                                          *)
Visit(v) == [k |-> "Visit", n |-> v, m |-> <<>>]
Leave(v) == [k |-> "Leave", n |-> v, m |-> <<>>]
ForwardEdge(p, c) == [k |-> "ForwardEdge", n |-> p, m |-> c]
BackEdge(c, p) == [k |-> "BackEdge", n |-> c, m |-> p]

(* A variant that goes on after the callback has answered false.           *)
RECURSIVE DeliveredAll(_, _, _)
DeliveredAll(log, events, stop) ==
    IF events = <<>> THEN [log |-> log, ok |-> stop # 0]
    ELSE DeliveredAll(Append(log, [ev |-> Head(events), answer |-> stop # 1]),
                      Tail(events), stop - 1)

(* `if !f(event) { return false; }` for the events of one step in turn:    *)
(* the callback answers false to the event number stop, if there is one.   *)
RECURSIVE Delivered(_, _, _)
Delivered(log, events, stop) ==
    IF events = <<>> THEN [log |-> log, ok |-> TRUE]
    ELSE IF stop = 1
    THEN [log |-> Append(log, [ev |-> Head(events), answer |-> FALSE]),
          ok |-> FALSE]
    ELSE Delivered(Append(log, [ev |-> Head(events), answer |-> TRUE]),
                   Tail(events), stop - 1)

(* The events of the match on self, and the stacks after it.               *)
RootEvents(v) ==
    IF IsContainer(v) THEN <<Visit(<<>>)>> ELSE <<Visit(<<>>), Leave(<<>>)>>

RootStacks(v) ==
    IF IsContainer(v) THEN [stack |-> <<<<>>>>, iter_stack |-> <<1>>]
    ELSE [stack |-> <<>>, iter_stack |-> <<>>]

(* A variant without the back edge of a container.                         *)
NoneEventsWithoutBackEdge(stack) == <<Leave(stack[Len(stack)])>>

(* The events of one turn of the loop: next is a container, next is        *)
(* another value, the iterator is at its end.                              *)
ContainerEvents(last, next) == <<ForwardEdge(last, next), Visit(next)>>

LeafEvents(last, v) ==
    <<ForwardEdge(last, v), Visit(v), Leave(v), BackEdge(v, last)>>

NoneEvents(stack) ==
    <<Leave(stack[Len(stack)])>>
        \o (IF Len(stack) > 1
            THEN <<BackEdge(stack[Len(stack)], stack[Len(stack) - 1])>>
            ELSE <<>>)

(* The stacks after one turn: the iterator on top has moved on; a          *)
(* container is pushed; at the end of the iterator both stacks are popped. *)
MovedOn(s) ==
    [s EXCEPT !.iter_stack[Len(s.iter_stack)] = @ + 1]
Pushed(s, next) ==
    [stack |-> Append(MovedOn(s).stack, next),
     iter_stack |-> Append(MovedOn(s).iter_stack, 1)]
Popped(s) ==
    [stack |-> SubSeq(s.stack, 1, Len(s.stack) - 1),
     iter_stack |-> SubSeq(s.iter_stack, 1, Len(s.iter_stack) - 1)]

MaxChildren == 2

WalkLeaves == {Null}

WalkValues ==
    WalkLeaves
        \cup Containers({KeyA, KeyB},
                        WalkLeaves \cup Containers({KeyA, KeyB}, WalkLeaves,
                                                   MaxChildren),
                        MaxChildren)

(* a is the value walked, b the two stacks, text the events delivered with *)
(* the callback's answers, res what walk returned.                         *)
InitWalk ==
    /\ pc = "walk_start"
    /\ a \in WalkValues
    /\ b = [stack |-> <<>>, iter_stack |-> <<>>]
    /\ text = <<>>
    /\ mark = 0
    /\ res = Null
    /\ prev = Null

(* One step of walk delivered events and left the stacks s.                *)
Walked(events, s) ==
    \E stop \in 0..4 :
       /\ stop <= Len(events)
       /\ text' = Delivered(text, events, stop).log
       /\ IF ~Delivered(text, events, stop).ok
          THEN pc' = "walk_returned" /\ res' = FALSE /\ b' = b
          ELSE IF s.stack = <<>>
          THEN pc' = "walk_returned" /\ res' = TRUE /\ b' = s
          ELSE pc' = "walk_loop" /\ res' = res /\ b' = s
       /\ UNCHANGED <<a, mark, prev>>

WalkRoot ==
    /\ pc = "walk_start"
    /\ Walked(RootEvents(a), RootStacks(a))

WalkNext ==
    /\ pc = "walk_loop"
    /\ LET last == b.stack[Len(b.stack)]
           at == b.iter_stack[Len(b.iter_stack)]
           iter == ValueIterator(NodeAt(a, last))
       IN  IF at > Len(iter)
           THEN Walked(NoneEvents(b.stack), Popped(b))
           ELSE IF IsContainer(iter[at])
           THEN Walked(ContainerEvents(last, Append(last, at)),
                       Pushed(b, Append(last, at)))
           ELSE Walked(LeafEvents(last, Append(last, at)), MovedOn(b))

NextWalk == WalkRoot \/ WalkNext

SpecWalk == InitWalk /\ [][NextWalk]_vars

(* The nodes of a value, and where the events about a node are in the log. *)
RECURSIVE NodesBelow(_, _)
NodesBelow(v, node) ==
    {node} \cup UNION {NodesBelow(ValueIterator(v)[i], Append(node, i)) :
                          i \in 1..Len(ValueIterator(v))}

EventsAt(ev) == {i \in 1..Len(text) : text[i].ev = ev}
The(S) == CHOOSE i \in S : TRUE
About(i, node) ==
    \/ text[i].ev.k \in {"Visit", "Leave", "BackEdge"} /\ text[i].ev.n = node
    \/ text[i].ev.k = "ForwardEdge" /\ text[i].ev.m = node
ParentOf(node) == SubSeq(node, 1, Len(node) - 1)

WellNested(node) ==
    /\ Cardinality(EventsAt(Visit(node))) = 1
    /\ Cardinality(EventsAt(Leave(node))) = 1
    /\ The(EventsAt(Visit(node))) < The(EventsAt(Leave(node)))
    /\ \A i \in 1..Len(text) :
          (\E below \in NodesBelow(NodeAt(a, node), node) \ {node} :
              About(i, below))
             => /\ The(EventsAt(Visit(node))) < i
                /\ i < The(EventsAt(Leave(node)))
    /\ node # <<>> =>
          /\ The(EventsAt(Visit(node))) > 1
          /\ text[The(EventsAt(Visit(node))) - 1].ev
                 = ForwardEdge(ParentOf(node), node)
          /\ The(EventsAt(Leave(node))) < Len(text)
          /\ text[The(EventsAt(Leave(node))) + 1].ev
                 = BackEdge(node, ParentOf(node))
    /\ node # <<>> /\ node[Len(node)] > 1 =>
          The(EventsAt(Leave([node EXCEPT ![Len(node)] = @ - 1])))
              < The(EventsAt(Visit(node)))

RECURSIVE Traversal(_, _)
RECURSIVE ChildTraversals(_, _, _)
Traversal(v, node) ==
    <<Visit(node)>> \o ChildTraversals(v, node, 1) \o <<Leave(node)>>
ChildTraversals(v, node, i) ==
    IF i > Len(ValueIterator(v)) THEN <<>>
    ELSE <<ForwardEdge(node, Append(node, i))>>
             \o Traversal(ValueIterator(v)[i], Append(node, i))
             \o <<BackEdge(Append(node, i), node)>>
             \o ChildTraversals(v, node, i + 1)

(* C29: walk returns false as soon as the callback answers false, and no   *)
(* event is delivered after that answer; when every answer is true, walk   *)
(* delivers the whole sequence of events and returns true.                 *)
WalkInterruption ==
    /\ \A i \in 1..(Len(text) - 1) : text[i].answer
    /\ pc = "walk_loop" => text # <<>> /\ text[Len(text)].answer
    /\ pc = "walk_returned" =>
          /\ res = text[Len(text)].answer
          /\ [i \in 1..Len(text) |-> text[i].ev]
                 = SubSeq(Traversal(a, <<>>), 1, Len(text))
          /\ res = TRUE => Len(text) = Len(Traversal(a, <<>>))

(* The callback answered false to the Leave of a value inside a container. *)
WalkInterruptionWitness ==
    /\ pc = "walk_returned"
    /\ res = FALSE
    /\ Len(text) = 6
    /\ text[6].ev = Leave(<<1, 1>>)

----------------------------------------------------------------------------
(* diff_value with its working paths, and diff_value_detail                *)
(* (ast/diff.rs).                                                          *)

(* The state diff_value_recursive works on: the two working paths and the  *)
(* differences pushed so far; panic when zip_eq has panicked, and restored *)
(* as long as every recursive call has returned with the working paths it  *)
(* was called with.                                                        *)
Working(pa, pb, ds) ==
    [path_a |-> pa, path_b |-> pb, differences |-> ds, panic |-> FALSE,
     restored |-> TRUE]

PathsPushed(st, ia, ib) ==
    [st EXCEPT !.path_a = push(@, ia), !.path_b = push(@, ib)]

(* A variant that leaves the steps on the working paths.                   *)
PathsKept(st) == st

(* path_b.pop(); path_a.pop();                                             *)
PathsPopped(st) == [st EXCEPT !.path_b = pop(@), !.path_a = pop(@)]

DifferencePushed(st) ==
    [st EXCEPT !.differences = Append(@, <<st.path_a, st.path_b>>)]

(* What a recursive call called with the paths of `called` has left.       *)
Returning(called, returned) ==
    [returned EXCEPT !.restored =
        /\ @
        /\ returned.panic
              \/ (/\ returned.path_a = called.path_a
                  /\ returned.path_b = called.path_b)]

RECURSIVE diff_value_paths(_, _, _)
RECURSIVE zip_eq_objects(_, _, _, _)
RECURSIVE zip_eq_arrays(_, _, _, _)

ObjectsZipped(mai, mbi, i, after) ==
    IF after.panic THEN after
    ELSE zip_eq_objects(mai, mbi, i + 1, PathsPopped(after))

zip_eq_objects(mai, mbi, i, st) ==
    IF i > Len(mai) /\ i > Len(mbi) THEN st
    ELSE IF i > Len(mai) \/ i > Len(mbi) THEN [st EXCEPT !.panic = TRUE]
    ELSE ObjectsZipped(mai, mbi, i,
            IF mai[i].key = mbi[i].key
            THEN Returning(
                    PathsPushed(st, ObjInd(mai[i].key), ObjInd(mbi[i].key)),
                    diff_value_paths(mai[i].val, mbi[i].val,
                        PathsPushed(st, ObjInd(mai[i].key),
                                    ObjInd(mbi[i].key))))
            ELSE DifferencePushed(
                    PathsPushed(st, ObjInd(mai[i].key), ObjInd(mbi[i].key))))

ArraysZipped(va, vb, i, after) ==
    IF after.panic THEN after
    ELSE zip_eq_arrays(va, vb, i + 1, PathsPopped(after))

zip_eq_arrays(va, vb, i, st) ==
    IF i > Len(va) /\ i > Len(vb) THEN st
    ELSE IF i > Len(va) \/ i > Len(vb) THEN [st EXCEPT !.panic = TRUE]
    ELSE ArraysZipped(va, vb, i,
            Returning(
                PathsPushed(st, ArrInd(EnumerateIndex(i)),
                            ArrInd(EnumerateIndex(i))),
                diff_value_paths(va[i], vb[i],
                    PathsPushed(st, ArrInd(EnumerateIndex(i)),
                                ArrInd(EnumerateIndex(i))))))

diff_value_paths(av, bv, st) ==
    IF av.t = "Object" /\ bv.t = "Object"
    THEN zip_eq_objects(sorted_by_key(av.members), sorted_by_key(bv.members),
                        1, st)
    ELSE IF av.t = "Array" /\ bv.t = "Array"
    THEN zip_eq_arrays(av.elems, bv.elems, 1, st)
    ELSE IF ~ValueEq(av, bv) THEN DifferencePushed(st)
    ELSE st

(* JsonPath::last.                                                         *)
last(path) == IF path = <<>> THEN None ELSE Some(path[Len(path)])

(* fn path_to_string: the keys quoted, the positions in decimal, joined    *)
(* with `>`.                                                               *)
RECURSIVE usize_to_string(_)
usize_to_string(n) ==
    IF n < 10 THEN <<Ch.zero + n>>
    ELSE usize_to_string(n \div 10) \o <<Ch.zero + (n % 10)>>

path_to_string(path) ==
    Join([i \in 1..Len(path) |->
            IF path[i].k = "ObjInd" THEN quote(path[i].key)
            ELSE usize_to_string(path[i].i)],
         <<Ch.gt>>)

(* One turn of the loop of diff_value_detail: the message for (pa, pb), or *)
(* a panic, of the indexing a[&pa], b[&pb] or of unreachable!.             *)
Message(kind, at, x, y) ==
    [panic |-> FALSE, kind |-> kind, at |-> at, x |-> x, y |-> y]
DetailPanic == [panic |-> TRUE, kind |-> "", at |-> <<>>, x |-> <<>>, y |-> <<>>]

detail_of(av, bv, pa, pb) ==
    IF last(pa) = last(pb)
    THEN IF path_indexed(pa, av).panic \/ path_indexed(pb, bv).panic
         THEN DetailPanic
         ELSE Message("different value", path_to_string(pa),
                      to_string(path_indexed(pa, av).val),
                      to_string(path_indexed(pb, bv).val))
    ELSE IF last(pa).some /\ split_last(pb).some
    THEN Message("different key", path_to_string(split_last(pb).val[1]),
                 last(pa).val, split_last(pb).val[2])
    ELSE DetailPanic

(* fn diff_value_detail: the messages, or a panic.                         *)
diff_value_detail(av, bv) ==
    LET path == diff_value(av, bv)
        result == [i \in 1..Len(path.diffs) |->
                     detail_of(av, bv, path.diffs[i][1], path.diffs[i][2])]
    IN  IF path.panic \/ \E i \in 1..Len(result) : result[i].panic
        THEN [panic |-> TRUE, result |-> <<>>]
        ELSE [panic |-> FALSE, result |-> result]

(* a and b are compared; res holds what diff_value did with its working    *)
(* paths and what diff_value_detail returned.                              *)
InitDetail ==
    /\ pc = "detail_input"
    /\ a \in DiffValues
    /\ b \in DiffValues
    /\ text = <<>>
    /\ mark = 0
    /\ res = Null
    /\ prev = Null

DiffValueDetail ==
    /\ pc = "detail_input"
    /\ res' = [paths |-> diff_value_paths(a, b, Working(<<>>, <<>>, <<>>)),
               detail |-> diff_value_detail(a, b)]
    /\ pc' = "detailed"
    /\ UNCHANGED <<a, b, text, mark, prev>>

NextDetail == DiffValueDetail

SpecDetail == InitDetail /\ [][NextDetail]_vars

(* The two paths name members with different keys of two objects at the    *)
(* same place.                                                             *)
KeyMismatch(pa, pb) ==
    /\ pa # <<>>
    /\ pb # <<>>
    /\ pa[Len(pa)].k = "ObjInd"
    /\ pb[Len(pb)].k = "ObjInd"
    /\ pa[Len(pa)].key # pb[Len(pb)].key
    /\ path_gotten(pa, a).some
    /\ path_gotten(pb, b).some

(* C30: when diff_value returns, every pair of paths has equal depths and  *)
(* agrees on every step but the last; the last steps differ exactly for a  *)
(* key mismatch; every recursive call returns with the working paths it    *)
(* was called with; diff_value_detail does not panic and returns one       *)
(* message for each pair, in the same order, `different value` when the    *)
(* last steps are equal (the root included) and `different key` otherwise. *)
DivergenceShape ==
    pc = "detailed" /\ ~res.paths.panic =>
        /\ res.paths.restored
        /\ res.paths.path_a = <<>>
        /\ res.paths.path_b = <<>>
        /\ res.paths.differences = diff_value(a, b).diffs
        /\ \A i \in 1..Len(res.paths.differences) :
              LET pa == res.paths.differences[i][1]
                  pb == res.paths.differences[i][2]
              IN  /\ depth(pa) = depth(pb)
                  /\ pop(pa) = pop(pb)
                  /\ last(pa) # last(pb) <=> KeyMismatch(pa, pb)
                  /\ last(pa) = last(pb) =>
                        /\ path_gotten(pa, a).some
                        /\ path_gotten(pb, b).some
                        /\ ~ValueEq(path_gotten(pa, a).val,
                                    path_gotten(pb, b).val)
        /\ ~res.detail.panic
        /\ Len(res.detail.result) = Len(res.paths.differences)
        /\ \A i \in 1..Len(res.detail.result) :
              LET pa == res.paths.differences[i][1]
                  pb == res.paths.differences[i][2]
              IN  /\ res.detail.result[i].kind
                        = IF last(pa) = last(pb) THEN "different value"
                          ELSE "different key"
                  /\ res.detail.result[i].at = path_to_string(lca(pa, pb))

(* Two arrays whose first elements are objects with different keys and     *)
(* whose second elements are arrays of different values.                   *)
DivergenceShapeWitness ==
    /\ pc = "detailed"
    /\ ~res.paths.panic
    /\ Len(res.detail.result) = 2
    /\ res.detail.result[1].kind = "different key"
    /\ res.detail.result[2].kind = "different value"
    /\ depth(res.paths.differences[2][1]) = 2

----------------------------------------------------------------------------
(* Calls of lex_1_char and is_next of parser/lexer.rs one after another.   *)

MaxRetryLen == 3

RetryChars == {Ch.lbrace, Ch.rbracket, Ch.space}

RetryTexts ==
    SeqsUpTo(RetryChars, MaxRetryLen)
        \cup {<<Ch.space, Ch.lbrace, Ch.lf, Ch.space, Ch.rbracket>>}

RetryTokens ==
    {Tok("LeftBrace"), Tok("RightBrace"), Tok("RightBracket"),
     Tok("Whitespace")}

(* res is the cursor, b the last call with the cursor before it and what   *)
(* it returned (at: the item it looked at), a the call before that.        *)
Retried(op, token, skip, before, ok, at) ==
    [op |-> op, token |-> token, skip |-> skip, before |-> before,
     ok |-> ok, at |-> at]

InitRetry ==
    /\ pc = "retrying"
    /\ text \in RetryTexts
    /\ a = Retried("new", Tok(""), FALSE, NoCur, FALSE, NoCur)
    /\ b = Retried("new", Tok(""), FALSE, NoCur, FALSE, NoCur)
    /\ mark = 0
    /\ res = LexerNew(RawJson(text))
    /\ prev = Null

CallLex1Char ==
    /\ pc = "retrying"
    /\ \E token \in RetryTokens, skip \in BOOLEAN :
          LET r == lex_1_char(RawJson(text), res, "Main", token, skip)
          IN  /\ b' = Retried("lex_1_char", token, skip, res, r.ok, r.at)
              /\ res' = r.cur
    /\ a' = b
    /\ UNCHANGED <<pc, text, mark, prev>>

CallIsNext ==
    /\ pc = "retrying"
    /\ \E token \in RetryTokens, skip \in BOOLEAN :
          LET r == is_next(RawJson(text), res, "Main", token, skip)
          IN  /\ b' = Retried("is_next", token, skip, res, r.yes, r.cur)
              /\ res' = r.cur
    /\ a' = b
    /\ UNCHANGED <<pc, text, mark, prev>>

NextRetry == CallLex1Char \/ CallIsNext

SpecRetry == InitRetry /\ [][NextRetry]_vars

IsBlank(c) == c \in {Ch.space, Ch.lf, Ch.cr, Ch.tab}

(* The cursors from cur on up to the first character that is not           *)
(* whitespace, that one included.                                          *)
RECURSIVE Blanks(_, _)
Blanks(json, cur) ==
    IF cur.some /\ IsBlank(cur.c)
    THEN {cur} \cup Blanks(json, LexerNext(json, cur))
    ELSE {cur}

(* The cursor a call looks at: the one before it, or with skip_ws the      *)
(* first behind the whitespace.                                            *)
LookedAt(call) ==
    IF call.skip
    THEN CHOOSE cur \in Blanks(RawJson(text), call.before) :
            ~(cur.some /\ IsBlank(cur.c))
    ELSE call.before

Failed(call) == call.op = "lex_1_char" /\ ~call.ok

(* C24: a lex_1_char that fails on a character of another token leaves the *)
(* cursor on that character, having skipped whitespace only, and only with *)
(* skip_ws; the same call again fails at the same position; is_next leaves *)
(* the cursor on the item it looked at; a lex_1_char with the token of     *)
(* that character then succeeds at that position; at the end of input the  *)
(* call fails and the lexer stays exhausted.                               *)
FailedMatchKeepsCursor ==
    pc = "retrying" =>
        /\ Failed(b) =>
              /\ b.at = LookedAt(b)
              /\ res = b.at
              /\ b.at.some => MainTokenize(b.at.c) # b.token
              /\ ~b.at.some => ~res.some
        /\ Failed(a) /\ Failed(b) /\ b.token = a.token /\ b.skip = a.skip =>
              b.at = a.at /\ res = a.at
        /\ b.op = "is_next" =>
              /\ res = LookedAt(b)
              /\ b.ok = (res.some /\ MainTokenize(res.c) = b.token)
              /\ res # b.before => b.before.some /\ IsBlank(b.before.c)
        /\ (/\ Failed(a)
            /\ a.at.some
            /\ b.op = "lex_1_char"
            /\ b.token = MainTokenize(a.at.c)
            /\ b.skip = a.skip)
              => /\ b.ok
                 /\ b.at = a.at
                 /\ res = LexerNext(RawJson(text), a.at)
        /\ b.op = "lex_1_char" /\ b.ok =>
              /\ b.at = LookedAt(b)
              /\ MainTokenize(b.at.c) = b.token
              /\ res = LexerNext(RawJson(text), b.at)

(* lex_1_char(RightBrace, true) failed on the `]` behind a space, and      *)
(* lex_1_char(RightBracket, true) then succeeded there.                    *)
FailedMatchKeepsCursorWitness ==
    /\ pc = "retrying"
    /\ Failed(a)
    /\ a.skip
    /\ a.before.some
    /\ a.before.c = Ch.space
    /\ a.at.c = Ch.rbracket
    /\ b.op = "lex_1_char"
    /\ b.token = Tok("RightBracket")
    /\ b.ok
    /\ b.at = a.at

----------------------------------------------------------------------------
(* NumericToken::parse and DigitsToken::parse (syntax/token/numeric.rs),   *)
(* next to Parser::parse_number, on integer numerals.                      *)

(* str::parse::<i64>() of the string NumericToken::parse has collected: an *)
(* optional sign and at least one digit, in range.                         *)
str_parse_i64(s) ==
    IF s = <<>> \/ s = <<Ch.minus>> THEN [ok |-> FALSE, val |-> Null]
    ELSE ParseI64(s)

(* DigitsToken::parse: digits are sought as long as branch finds one.      *)
RECURSIVE DigitsToken_parse(_, _, _)
DigitsToken_parse(json, cur, digits) ==
    IF branch(json, cur, "Digits").ok
    THEN DigitsToken_parse(
            json,
            seek(json, cur,
                 TokenLL1("Digits", "Digit", Tokenized(<<cur.c>>))).cur,
            digits
                \o seek(json, cur,
                        TokenLL1("Digits", "Digit", Tokenized(<<cur.c>>))).s)
    ELSE [s |-> digits, cur |-> cur]

(* NumericToken::parse after the integer part: a fraction or an exponent   *)
(* goes to FractionToken::parse or ExponentToken::parse, which are todo!() *)
(* and panic; otherwise the string is parsed as i64 and expect() panics    *)
(* when that fails.                                                        *)
NumericConverted(json, start, numeric, cur) ==
    IF /\ branch(json, cur, "Numeric").ok
       /\ branch(json, cur, "Numeric").token.k \in {"Fraction", "Exponent"}
    THEN Err("panic", start, LexerPos(json, cur), cur)
    ELSE IF str_parse_i64(numeric).ok
    THEN Ok(str_parse_i64(numeric).val, cur)
    ELSE Err("panic", start, LexerPos(json, cur), cur)

(* NumericToken::parse: a minus found by branch is pushed to the string    *)
(* (branch does not consume it); then zero is sought, or the digits are    *)
(* parsed, or, for any other token of the numeric family, nothing.         *)
NumericInteger(json, start, numeric, cur) ==
    IF ~branch(json, cur, "Numeric").ok
    THEN Err("UnmatchedTokenPrefix", LexerPos(json, cur), LexerPos(json, cur),
             cur)
    ELSE IF branch(json, cur, "Numeric").token.k = "Zero"
    THEN NumericConverted(
            json, start,
            numeric \o seek(json, cur, Token("Numeric", "Zero")).s,
            seek(json, cur, Token("Numeric", "Zero")).cur)
    ELSE IF branch(json, cur, "Numeric").token.k = "OneNine"
    THEN NumericConverted(json, start,
                          numeric \o DigitsToken_parse(json, cur, <<>>).s,
                          DigitsToken_parse(json, cur, <<>>).cur)
    ELSE NumericConverted(json, start, numeric, cur)

NumericToken_parse(json, cur) ==
    NumericInteger(json, LexerPos(json, cur),
                   IF /\ branch(json, cur, "Numeric").ok
                      /\ branch(json, cur, "Numeric").token.k = "Minus"
                   THEN token_to_string(Token("Numeric", "Minus"))
                   ELSE <<>>,
                   cur)

(* Integer numerals: short ones, and ones of 19 and 20 digits around       *)
(* i64::MAX and -i64::MIN, with and without a minus.                       *)
MaxIntegerLen == 2

Magnitudes ==
    {ds \in SeqsUpTo({Ch.zero, Ch.one, Ch.nine}, MaxIntegerLen) :
        ds # <<>> /\ (Len(ds) > 1 => ds[1] # Ch.zero)}
        \cup {SubSeq(I64MaxMag, 1, 18) \o ds :
                ds \in SeqsUpTo({Ch.zero, Ch.seven, Ch.eight, Ch.nine},
                                MaxIntegerLen) \ {<<>>}}

IntegerNumerals == Magnitudes \cup {<<Ch.minus>> \o ds : ds \in Magnitudes}

InitInteger ==
    /\ pc = "integer_input"
    /\ text \in IntegerNumerals
    /\ a = Null
    /\ b = Null
    /\ mark = 0
    /\ res = Null
    /\ prev = Null

(* Parser::parse_number of syntax/parser.rs on the numeral.                *)
ParseInteger ==
    /\ pc = "integer_input"
    /\ res' = parse_number(RawJson(text), LexerNew(RawJson(text)))
    /\ b' = "Parser::parse_number"
    /\ pc' = "integer_parsed"
    /\ UNCHANGED <<a, text, mark, prev>>

(* NumericToken::parse on the numeral.                                     *)
NumericTokenParse ==
    /\ pc = "integer_input"
    /\ res' = NumericToken_parse(RawJson(text), LexerNew(RawJson(text)))
    /\ b' = "NumericToken::parse"
    /\ pc' = "integer_parsed"
    /\ UNCHANGED <<a, text, mark, prev>>

NextInteger == ParseInteger \/ NumericTokenParse

SpecInteger == InitInteger /\ [][NextInteger]_vars

(* The sign and the magnitude of a numeral, and whether its value is in    *)
(* [-2^63, 2^63 - 1].                                                      *)
IsNegative(numeral) == Head(numeral) = Ch.minus
Magnitude(numeral) == IF IsNegative(numeral) THEN Tail(numeral) ELSE numeral
InI64(numeral) ==
    MagLeq(Magnitude(numeral),
           IF IsNegative(numeral) THEN I64MinMag ELSE I64MaxMag)

(* C21: an integer numeral outside [-2^63, 2^63 - 1] fails with the        *)
(* cannot-convert-to-i64 error carrying the span of the numeral, without a *)
(* panic and without a wrapped, truncated or Float value; a numeral inside *)
(* the range yields the Integer of exactly its value.                      *)
IntegerOverflowReported ==
    pc = "integer_parsed" =>
        IF InI64(text)
        THEN /\ res.ok
             /\ res.val = Integer(IsNegative(text) /\ Magnitude(text) # <<Ch.zero>>,
                                  Magnitude(text))
        ELSE /\ ~res.ok
             /\ res.err = "CannotConvertI64"
             /\ res.pos = <<0, 0>>
             /\ res.end = <<0, Len(text)>>

----------------------------------------------------------------------------
Init == InitDiff \/ InitFormat \/ InitParse \/ InitNumber \/ InitString \/ InitIndex \/ InitNested \/ InitLoop \/ InitLiteral \/ InitTraverse \/ InitLexer \/ InitPath \/ InitWalk \/ InitDetail \/ InitRetry \/ InitInteger

Next == NextDiff \/ NextFormat \/ NextParse \/ NextNumber \/ NextString \/ NextIndex \/ NextNested \/ NextLoop \/ NextLiteral \/ NextTraverse \/ NextLexer \/ NextPath \/ NextWalk \/ NextDetail \/ NextRetry \/ NextInteger

Spec == Init /\ [][Next]_vars
====
